---- MODULE Spec2Model ----
(***************************************************************************)
(* Model of the Maven deploy plugin (relicta-tech/plugin-maven).           *)
(*                                                                         *)
(* Go strings that carry data (configuration values, command tokens,      *)
(* paths, URLs) are sequences of one-character strings, so that the        *)
(* validators and the parsers work on characters as the Go code does.      *)
(* Go error texts and response messages are TLA+ strings; Str(s) renders a *)
(* character sequence into such a text, as the %s verb of fmt does.        *)
(* The nil error is the empty text.                                        *)
(***************************************************************************)
EXTENDS Integers, Sequences, FiniteSets, TLC

VARIABLES
    pc,        \* position of the invocation
    hook,      \* req.Hook
    dryRun,    \* req.DryRun
    version,   \* req.Context.Version
    raw,       \* req.Config / the config map given to Validate
    dns,       \* what net.LookupIP answers in this run (environment)
    cfg,       \* *Config returned by parseConfig
    args,      \* args returned by buildMavenCommand
    checks,    \* the checks deploy has performed so far, in order
    lookups,   \* the hosts handed to net.LookupIP so far, in order
    runCalls,  \* the calls made to executor.Run so far, in order
    resp,      \* the responses Execute has returned, in order
    vresp,     \* the responses Validate has returned, in order
    fin,       \* input of the validator under study (SpecPath, SpecURL)
    fout       \* its result

vars == <<pc, hook, dryRun, version, raw, dns, cfg, args, checks, lookups,
          runCalls, resp, vresp, fin, fout>>

(***************************************************************************)
(* Characters and strings                                                  *)
(***************************************************************************)
Lower == {"a","b","c","d","e","f","g","h","i","j","k","l","m",
          "n","o","p","q","r","s","t","u","v","w","x","y","z"}
Upper == {"A","B","C","D","E","F","G","H","I","J","K","L","M",
          "N","O","P","Q","R","S","T","U","V","W","X","Y","Z"}
Digit == {"0","1","2","3","4","5","6","7","8","9"}
Alpha == Lower \cup Upper
Alnum == Alpha \cup Digit

RECURSIVE Str(_)
Str(s) == IF s = <<>> THEN "" ELSE Head(s) \o Str(Tail(s))

\* strings.HasPrefix
HasPrefix(s, p) == Len(s) >= Len(p) /\ SubSeq(s, 1, Len(p)) = p

\* strings.HasSuffix
HasSuffix(s, p) ==
    Len(s) >= Len(p) /\ SubSeq(s, Len(s) - Len(p) + 1, Len(s)) = p

\* strings.Contains
Contains(s, p) ==
    \E i \in 1..(Len(s) - Len(p) + 1) : SubSeq(s, i, i + Len(p) - 1) = p

\* strings.Index, 1-based; 0 when c does not occur
IndexOf(s, c) ==
    IF \E i \in 1..Len(s) : s[i] = c
    THEN CHOOSE i \in 1..Len(s) : s[i] = c /\ \A j \in 1..(i-1) : s[j] # c
    ELSE 0

\* strings.LastIndex, 1-based; 0 when c does not occur
LastIndexOf(s, c) ==
    IF \E i \in 1..Len(s) : s[i] = c
    THEN CHOOSE i \in 1..Len(s) : s[i] = c /\ \A j \in (i+1)..Len(s) : s[j] # c
    ELSE 0

\* strings.Join
RECURSIVE Join(_, _)
Join(elems, sep) ==
    IF elems = <<>> THEN <<>>
    ELSE IF Len(elems) = 1 THEN elems[1]
    ELSE elems[1] \o sep \o Join(Tail(elems), sep)

(***************************************************************************)
(* validatePath: filepath.Clean, filepath.IsAbs and the traversal check    *)
(* (Unix: filepath.Separator is '/').                                      *)
(***************************************************************************)
Separator == "/"

\* the ".." case of Clean's loop: back up over the last element of out
RECURSIVE Backtrack(_, _, _)
Backtrack(out, w, dotdot) ==
    IF w > dotdot /\ out[w + 1] # Separator
    THEN Backtrack(out, w - 1, dotdot)
    ELSE SubSeq(out, 1, w)

\* the end of the path element that starts at r (first index not in it)
RECURSIVE ElemEnd(_, _)
ElemEnd(path, r) ==
    IF r <= Len(path) /\ path[r] # Separator THEN ElemEnd(path, r + 1) ELSE r

\* Clean's loop; r is the 1-based read position
RECURSIVE CleanLoop(_, _, _, _, _)
CleanLoop(path, r, out, dotdot, rooted) ==
    LET n == Len(path) IN
    IF r > n THEN out
    ELSE IF path[r] = Separator
        THEN CleanLoop(path, r + 1, out, dotdot, rooted)
    ELSE IF path[r] = "." /\ (r = n \/ path[r + 1] = Separator)
        THEN CleanLoop(path, r + 1, out, dotdot, rooted)
    ELSE IF path[r] = "." /\ path[r + 1] = "."
            /\ (r + 1 = n \/ path[r + 2] = Separator)
        THEN IF Len(out) > dotdot
             THEN CleanLoop(path, r + 2,
                            Backtrack(out, Len(out) - 1, dotdot),
                            dotdot, rooted)
             ELSE IF ~rooted
             THEN LET o2 == (IF Len(out) > 0 THEN out \o <<Separator>> ELSE out)
                            \o <<".", ".">>
                  IN CleanLoop(path, r + 2, o2, Len(o2), rooted)
             ELSE CleanLoop(path, r + 2, out, dotdot, rooted)
    ELSE LET o2 == IF (rooted /\ Len(out) # 1) \/ (~rooted /\ Len(out) # 0)
                   THEN out \o <<Separator>> ELSE out
             e  == ElemEnd(path, r)
         IN CleanLoop(path, e, o2 \o SubSeq(path, r, e - 1), dotdot, rooted)

\* filepath.Clean
Clean(path) ==
    IF path = <<>> THEN <<".">>
    ELSE LET rooted == path[1] = Separator
             out == IF rooted
                    THEN CleanLoop(path, 2, <<Separator>>, 1, TRUE)
                    ELSE CleanLoop(path, 1, <<>>, 0, FALSE)
         IN IF out = <<>> THEN <<".">> ELSE out

\* filepath.IsAbs
IsAbs(path) == HasPrefix(path, <<Separator>>)

ErrAbsolute == "absolute paths are not allowed"
ErrTraversal ==
    "path traversal detected: cannot use '..' to escape working directory"

\* validatePath without the check of a leading ".."
validatePath_NoPrefixCheck(path) ==
    IF path = <<>> THEN ""
    ELSE IF IsAbs(Clean(path)) THEN ErrAbsolute
    ELSE IF Contains(Clean(path), <<Separator, ".", ".">>) THEN ErrTraversal
    ELSE ""

\* validatePath looking for ".." in the path as given, not as cleaned
validatePath_RawTraversal(path) ==
    IF path = <<>> THEN ""
    ELSE IF IsAbs(Clean(path)) THEN ErrAbsolute
    ELSE IF HasPrefix(path, <<".", ".">>)
            \/ Contains(path, <<Separator, ".", ".">>)
        THEN ErrTraversal
    ELSE ""

validatePath(path) ==
    IF path = <<>> THEN ""
    ELSE LET cleaned == Clean(path) IN
         IF IsAbs(cleaned) THEN ErrAbsolute
         ELSE IF HasPrefix(cleaned, <<".", ".">>)
                 \/ Contains(cleaned, <<Separator, ".", ".">>)
              THEN ErrTraversal
         ELSE ""

(***************************************************************************)
(* validateMavenCoordinate and validateProfile                             *)
(***************************************************************************)
MaxCoordinateLen == 256
MaxProfileLen == 128

\* mavenCoordinatePattern without the closing anchor: a prefix may match
mavenCoordinatePattern_Unanchored(s) == Len(s) >= 1 /\ s[1] \in Alnum

\* mavenCoordinatePattern: ^[a-zA-Z0-9][a-zA-Z0-9._-]*$
mavenCoordinatePattern(s) ==
    /\ Len(s) >= 1
    /\ s[1] \in Alnum
    /\ \A i \in 2..Len(s) : s[i] \in Alnum \cup {".", "_", "-"}

\* profilePattern with a comma in the class of the characters that follow
profilePattern_AllowsComma(s) ==
    /\ Len(s) >= 1
    /\ s[1] \in Alpha
    /\ \A i \in 2..Len(s) : s[i] \in Alnum \cup {"_", "-", ","}

\* profilePattern: ^[a-zA-Z][a-zA-Z0-9_-]*$
profilePattern(s) ==
    /\ Len(s) >= 1
    /\ s[1] \in Alpha
    /\ \A i \in 2..Len(s) : s[i] \in Alnum \cup {"_", "-"}

\* validateMavenCoordinate with the length test off by one
validateMavenCoordinate_OffByOne(coord, fieldName) ==
    IF coord = <<>> THEN fieldName \o " cannot be empty"
    ELSE IF Len(coord) >= MaxCoordinateLen
        THEN fieldName \o " too long (max 256 characters)"
    ELSE IF ~mavenCoordinatePattern(coord)
        THEN "invalid " \o fieldName \o ": contains disallowed characters"
    ELSE IF Contains(coord, <<".", ".">>)
        THEN fieldName \o " cannot contain '..'"
    ELSE ""

validateMavenCoordinate(coord, fieldName) ==
    IF coord = <<>> THEN fieldName \o " cannot be empty"
    ELSE IF Len(coord) > MaxCoordinateLen
        THEN fieldName \o " too long (max 256 characters)"
    ELSE IF ~mavenCoordinatePattern(coord)
        THEN "invalid " \o fieldName \o ": contains disallowed characters"
    ELSE IF Contains(coord, <<".", ".">>)
        THEN fieldName \o " cannot contain '..'"
    ELSE ""

\* validateProfile matching the pattern before it tests the length
validateProfile_PatternFirst(profile) ==
    IF profile = <<>> THEN "profile name cannot be empty"
    ELSE IF ~profilePattern(profile)
        THEN "invalid profile name: must be alphanumeric with dashes or underscores"
    ELSE IF Len(profile) > MaxProfileLen
        THEN "profile name too long (max 128 characters)"
    ELSE ""

validateProfile(profile) ==
    IF profile = <<>> THEN "profile name cannot be empty"
    ELSE IF Len(profile) > MaxProfileLen
        THEN "profile name too long (max 128 characters)"
    ELSE IF ~profilePattern(profile)
        THEN "invalid profile name: must be alphanumeric with dashes or underscores"
    ELSE ""

(***************************************************************************)
(* isPrivateIP.  A net.IP is its sequence of bytes: 4 for the IPv4 form,   *)
(* 16 for the IPv6 form.                                                   *)
(***************************************************************************)
\* net.IP.To4: the 4-byte form, or <<>> (nil) when ip is no IPv4 address
To4(ip) ==
    IF Len(ip) = 4 THEN ip
    ELSE IF Len(ip) = 16 /\ (\A i \in 1..10 : ip[i] = 0)
            /\ ip[11] = 255 /\ ip[12] = 255
        THEN SubSeq(ip, 13, 16)
    ELSE <<>>

\* a and b agree on their first bits bits
SamePrefix(a, b, bits) ==
    \A i \in 1..Len(a) :
        LET k == bits - 8 * (i - 1) IN
        IF k >= 8 THEN a[i] = b[i]
        ELSE IF k <= 0 THEN TRUE
        ELSE a[i] \div (2 ^ (8 - k)) = b[i] \div (2 ^ (8 - k))

\* net.IPNet.Contains for the block net.ParseCIDR returns
BlockContains(block, ip) ==
    LET x == IF To4(ip) # <<>> THEN To4(ip) ELSE ip IN
    Len(x) = Len(block.ip) /\ SamePrefix(block.ip, x, block.bits)

privateRanges ==
    << [ip |-> <<10, 0, 0, 0>>,    bits |-> 8],
       [ip |-> <<172, 16, 0, 0>>,  bits |-> 12],
       [ip |-> <<192, 168, 0, 0>>, bits |-> 16],
       [ip |-> <<127, 0, 0, 0>>,   bits |-> 8],
       [ip |-> <<169, 254, 0, 0>>, bits |-> 16],
       [ip |-> <<0, 0, 0, 0>>,     bits |-> 8] >>

cloudMetadata ==
    << [ip |-> <<169, 254, 169, 254>>, bits |-> 32],
       [ip |-> <<253, 0, 14, 194, 0, 0, 0, 0, 0, 0, 0, 0, 0, 0, 2, 84>>,
        bits |-> 128] >>

IPv6loopback == <<0, 0, 0, 0, 0, 0, 0, 0, 0, 0, 0, 0, 0, 0, 0, 1>>

\* net.IP.IsLoopback
IsLoopback(ip) ==
    IF To4(ip) # <<>> THEN To4(ip)[1] = 127 ELSE ip = IPv6loopback

\* net.IP.IsLinkLocalUnicast
IsLinkLocalUnicast(ip) ==
    IF To4(ip) # <<>> THEN To4(ip)[1] = 169 /\ To4(ip)[2] = 254
    ELSE Len(ip) = 16 /\ ip[1] = 254 /\ ip[2] \div 64 = 2

\* net.IP.IsLinkLocalMulticast
IsLinkLocalMulticast(ip) ==
    IF To4(ip) # <<>>
    THEN To4(ip)[1] = 224 /\ To4(ip)[2] = 0 /\ To4(ip)[3] = 0
    ELSE Len(ip) = 16 /\ ip[1] = 255 /\ ip[2] % 16 = 2

\* net.IP.IsPrivate
IsPrivate(ip) ==
    IF To4(ip) # <<>>
    THEN \/ To4(ip)[1] = 10
         \/ To4(ip)[1] = 172 /\ To4(ip)[2] \div 16 = 1
         \/ To4(ip)[1] = 192 /\ To4(ip)[2] = 168
    ELSE Len(ip) = 16 /\ ip[1] \div 2 = 126

\* isPrivateIP with the CIDR table alone, without the net.IP predicates
isPrivateIP_RangesOnly(ip) ==
    \E i \in 1..Len(privateRanges \o cloudMetadata) :
        BlockContains((privateRanges \o cloudMetadata)[i], ip)

isPrivateIP(ip) ==
    LET allRanges == privateRanges \o cloudMetadata IN
    \/ \E i \in 1..Len(allRanges) : BlockContains(allRanges[i], ip)
    \/ IsLoopback(ip) \/ IsLinkLocalUnicast(ip)
    \/ IsLinkLocalMulticast(ip) \/ IsPrivate(ip)

(***************************************************************************)
(* url.Parse and URL.Hostname, as validateRepositoryURL uses them: only    *)
(* the scheme and the host of the result are read.  A parse result is      *)
(* [err, scheme, host]; err is "" when the URL parses.                     *)
(***************************************************************************)
UpperSeq == <<"A","B","C","D","E","F","G","H","I","J","K","L","M",
              "N","O","P","Q","R","S","T","U","V","W","X","Y","Z">>
LowerSeq == <<"a","b","c","d","e","f","g","h","i","j","k","l","m",
              "n","o","p","q","r","s","t","u","v","w","x","y","z">>

\* strings.ToLower
ToLower(s) ==
    [i \in 1..Len(s) |->
        IF s[i] \in Upper
        THEN LowerSeq[CHOOSE k \in 1..Len(UpperSeq) : UpperSeq[k] = s[i]]
        ELSE s[i]]

\* the part of s before the first c (all of s when c does not occur)
Before(s, c) == IF IndexOf(s, c) = 0 THEN s ELSE SubSeq(s, 1, IndexOf(s, c) - 1)

\* the part of s from position i on
From(s, i) == SubSeq(s, i, Len(s))

\* url.getScheme: [err, scheme, rest]
RECURSIVE getScheme(_, _)
getScheme(rawURL, i) ==
    IF i > Len(rawURL) THEN [err |-> "", scheme |-> <<>>, rest |-> rawURL]
    ELSE LET c == rawURL[i] IN
         IF c \in Alpha THEN getScheme(rawURL, i + 1)
         ELSE IF c \in Digit \cup {"+", "-", "."}
            THEN IF i = 1
                 THEN [err |-> "", scheme |-> <<>>, rest |-> rawURL]
                 ELSE getScheme(rawURL, i + 1)
         ELSE IF c = ":"
            THEN IF i = 1
                 THEN [err |-> "missing protocol scheme",
                       scheme |-> <<>>, rest |-> <<>>]
                 ELSE [err |-> "", scheme |-> SubSeq(rawURL, 1, i - 1),
                       rest |-> From(rawURL, i + 1)]
         ELSE [err |-> "", scheme |-> <<>>, rest |-> rawURL]

\* url.validOptionalPort
validOptionalPort(port) ==
    \/ port = <<>>
    \/ port[1] = ":" /\ \A i \in 2..Len(port) : port[i] \in Digit

\* the characters url.unescape lets through in a host (mode encodeHost)
HostChars ==
    Alnum \cup {"-", "_", ".", "~", "!", "$", "&", "'", "(", ")", "*", "+",
                ",", ";", "=", ":", "[", "]", "<", ">", "\""}

\* url.validUserinfo
UserinfoChars ==
    Alnum \cup {"-", ".", "_", ":", "~", "!", "$", "&", "'", "(", ")", "*",
                "+", ",", ";", "=", "%", "@"}

\* url.parseHost: [err, host]
parseHost(host) ==
    IF HasPrefix(host, <<"[">>) /\ LastIndexOf(host, "]") = 0
        THEN [err |-> "missing ']' in host", host |-> <<>>]
    ELSE IF HasPrefix(host, <<"[">>)
            /\ ~validOptionalPort(From(host, LastIndexOf(host, "]") + 1))
        THEN [err |-> "invalid port \""
                      \o Str(From(host, LastIndexOf(host, "]") + 1))
                      \o "\" after host",
              host |-> <<>>]
    ELSE IF ~HasPrefix(host, <<"[">>) /\ LastIndexOf(host, ":") # 0
            /\ ~validOptionalPort(From(host, LastIndexOf(host, ":")))
        THEN [err |-> "invalid port \""
                      \o Str(From(host, LastIndexOf(host, ":")))
                      \o "\" after host",
              host |-> <<>>]
    ELSE IF \E i \in 1..Len(host) : host[i] \notin HostChars
        THEN [err |-> "invalid character in host name", host |-> <<>>]
    ELSE [err |-> "", host |-> host]

\* url.parseAuthority, after the host behind the last "@" (at i) is parsed
parseUserinfo(authority, i, h) ==
    IF h.err # "" THEN h
    ELSE IF i # 0 /\ \E k \in 1..(i - 1) : authority[k] \notin UserinfoChars
        THEN [err |-> "net/url: invalid userinfo", host |-> <<>>]
    ELSE h

\* url.parseAuthority: [err, host]
parseAuthority(authority) ==
    parseUserinfo(authority, LastIndexOf(authority, "@"),
                  parseHost(From(authority, LastIndexOf(authority, "@") + 1)))

\* url.Parse, the end of its "//" branch: a is what parseAuthority returned
parseWithAuthority(scheme, a) ==
    IF a.err # ""
    THEN [err |-> a.err, scheme |-> <<>>, host |-> <<>>]
    ELSE [err |-> "", scheme |-> scheme, host |-> a.host]

\* url.Parse, after the scheme and the query are split off
parseRest(scheme, rest) ==
    IF ~HasPrefix(rest, <<"/">>) /\ scheme # <<>>
        THEN [err |-> "", scheme |-> scheme, host |-> <<>>]
    ELSE IF ~HasPrefix(rest, <<"/">>) /\ Contains(Before(rest, "/"), <<":">>)
        THEN [err |-> "first path segment in URL cannot contain colon",
              scheme |-> <<>>, host |-> <<>>]
    ELSE IF (scheme # <<>> \/ ~HasPrefix(rest, <<"/", "/", "/">>))
            /\ HasPrefix(rest, <<"/", "/">>)
        THEN parseWithAuthority(scheme,
                                parseAuthority(Before(From(rest, 3), "/")))
    ELSE [err |-> "", scheme |-> scheme, host |-> <<>>]

\* url.Parse, after getScheme returned gs
parseScheme(gs) ==
    IF gs.err # ""
    THEN [err |-> gs.err, scheme |-> <<>>, host |-> <<>>]
    ELSE parseRest(ToLower(gs.scheme), Before(gs.rest, "?"))

\* url.Parse: the fragment is cut off, then the scheme, then the query,
\* then the authority of a "//" URL is parsed
urlParse(rawURL) == parseScheme(getScheme(Before(rawURL, "#"), 1))

\* url.splitHostPort, its second half: the brackets of an IPv6 host go
stripBrackets(h) ==
    IF HasPrefix(h, <<"[">>) /\ HasSuffix(h, <<"]">>)
    THEN SubSeq(h, 2, Len(h) - 1) ELSE h

\* URL.Hostname (url.splitHostPort): the host without port and brackets
Hostname(host) ==
    stripBrackets(IF LastIndexOf(host, ":") # 0
                     /\ validOptionalPort(From(host, LastIndexOf(host, ":")))
                  THEN SubSeq(host, 1, LastIndexOf(host, ":") - 1)
                  ELSE host)

(***************************************************************************)
(* net.LookupIP.  The host's resolver is the environment: answer is what   *)
(* it gives for a host name, [err, ips] with err = "" and at least one     *)
(* address, or an error and none.  The empty host is never resolved and a  *)
(* dotted-quad IPv4 literal resolves to itself without a query.            *)
(***************************************************************************)
DigitSeq == <<"0","1","2","3","4","5","6","7","8","9">>

DigitVal(c) == (CHOOSE k \in 1..Len(DigitSeq) : DigitSeq[k] = c) - 1

\* the value of a sequence of decimal digits
RECURSIVE Decimal(_)
Decimal(s) ==
    IF s = <<>> THEN 0
    ELSE 10 * Decimal(SubSeq(s, 1, Len(s) - 1)) + DigitVal(s[Len(s)])

\* strings.Split on one character
RECURSIVE Split(_, _)
Split(s, c) ==
    IF IndexOf(s, c) = 0 THEN <<s>>
    ELSE <<SubSeq(s, 1, IndexOf(s, c) - 1)>> \o Split(From(s, IndexOf(s, c) + 1), c)

\* netip.ParseAddr on a dotted quad: its four bytes, or <<>> when host is
\* no IPv4 literal
ParseIPv4(host) ==
    LET parts == Split(host, ".")
        okPart(q) == /\ Len(q) \in 1..3
                     /\ \A i \in 1..Len(q) : q[i] \in Digit
                     /\ (Len(q) > 1 => q[1] # "0")
                     /\ Decimal(q) <= 255
    IN IF Len(parts) = 4 /\ \A i \in 1..4 : okPart(parts[i])
       THEN [i \in 1..4 |-> Decimal(parts[i])]
       ELSE <<>>

LookupIP(host, answer) ==
    IF host = <<>>
        THEN [err |-> "lookup : no such host", ips |-> <<>>]
    ELSE IF ParseIPv4(host) # <<>>
        THEN [err |-> "", ips |-> <<ParseIPv4(host)>>]
    ELSE answer

(***************************************************************************)
(* validateRepositoryURL.  The result is [err, lookups]: the error text    *)
(* ("" for nil) and the hosts handed to net.LookupIP on the way.           *)
(***************************************************************************)
sLocalhost == <<"l","o","c","a","l","h","o","s","t">>
sLoopback4 == <<"1","2","7",".","0",".","0",".","1">>
sLoopback6 == <<":",":","1">>
sHttps == <<"h","t","t","p","s">>

ErrPrivate == "URLs pointing to private networks are not allowed"

\* checkResolved looking at the first resolved address only
checkResolved_FirstOnly(host, res) ==
    IF res.err # ""
        THEN [err |-> "failed to resolve hostname: " \o res.err,
              lookups |-> <<host>>]
    ELSE IF isPrivateIP(res.ips[1])
        THEN [err |-> ErrPrivate, lookups |-> <<host>>]
    ELSE [err |-> "", lookups |-> <<host>>]

\* validateRepositoryURL, from the net.LookupIP call on: res is its result
checkResolved(host, res) ==
    IF res.err # ""
        THEN [err |-> "failed to resolve hostname: " \o res.err,
              lookups |-> <<host>>]
    ELSE IF \E i \in 1..Len(res.ips) : isPrivateIP(res.ips[i])
        THEN [err |-> ErrPrivate, lookups |-> <<host>>]
    ELSE [err |-> "", lookups |-> <<host>>]

\* isLocalhost without the IPv6 loopback
isLocalhost_NoIPv6(host) == host = sLocalhost \/ host = sLoopback4

isLocalhost(host) ==
    host = sLocalhost \/ host = sLoopback4 \/ host = sLoopback6

\* checkHost letting a URL without a scheme through to the resolver
checkHost_AllowNoScheme(scheme, host, answer) ==
    IF scheme # sHttps /\ scheme # <<>> /\ ~isLocalhost(host)
        THEN [err |-> "only HTTPS URLs are allowed (got " \o Str(scheme) \o ")",
              lookups |-> <<>>]
    ELSE IF isLocalhost(host) THEN [err |-> "", lookups |-> <<>>]
    ELSE checkResolved(host, LookupIP(host, answer))

\* validateRepositoryURL, from the scheme check on
checkHost(scheme, host, answer) ==
    IF scheme # sHttps /\ ~isLocalhost(host)
        THEN [err |-> "only HTTPS URLs are allowed (got " \o Str(scheme) \o ")",
              lookups |-> <<>>]
    ELSE IF isLocalhost(host) THEN [err |-> "", lookups |-> <<>>]
    ELSE checkResolved(host, LookupIP(host, answer))

\* validateRepositoryURL, after url.Parse returned parsedURL
checkParsed(rawURL, parsedURL, answer) ==
    IF parsedURL.err # ""
    THEN [err |-> "invalid URL: parse \"" \o Str(rawURL) \o "\": "
                  \o parsedURL.err,
          lookups |-> <<>>]
    ELSE checkHost(parsedURL.scheme, Hostname(parsedURL.host), answer)

validateRepositoryURL(rawURL, answer) ==
    IF rawURL = <<>> THEN [err |-> "", lookups |-> <<>>]
    ELSE checkParsed(rawURL, urlParse(rawURL), answer)

(***************************************************************************)
(* Config, parseConfig and buildMavenCommand                               *)
(***************************************************************************)
sPomXml == <<"p","o","m",".","x","m","l">>
sMvn == <<"m","v","n">>
sDeploy == <<"d","e","p","l","o","y">>
sFlagF == <<"-","f">>
sFlagSkipTests == <<"-","D","s","k","i","p","T","e","s","t","s">>
sFlagS == <<"-","s">>
sFlagP == <<"-","P">>

\* the raw map: an absent key reads as the parser's default ("", false, nil)
parseConfig(r) ==
    [GroupID    |-> r.group_id,
     ArtifactID |-> r.artifact_id,
     PomPath    |-> IF r.pom_path = <<>> THEN sPomXml ELSE r.pom_path,
     Username   |-> r.username,
     Password   |-> r.password,
     Repository |-> r.repository,
     SkipTests  |-> r.skip_tests,
     Settings   |-> r.settings,
     Profiles   |-> r.profiles]

\* FirstBadProfile going through the profiles from the end
FirstBadProfile_FromEnd(profiles) ==
    IF \E i \in 1..Len(profiles) : validateProfile(profiles[i]) # ""
    THEN CHOOSE i \in 1..Len(profiles) :
            /\ validateProfile(profiles[i]) # ""
            /\ \A j \in (i + 1)..Len(profiles) : validateProfile(profiles[j]) = ""
    ELSE 0

\* the first profile validateProfile rejects, 0 when there is none
FirstBadProfile(profiles) ==
    IF \E i \in 1..Len(profiles) : validateProfile(profiles[i]) # ""
    THEN CHOOSE i \in 1..Len(profiles) :
            /\ validateProfile(profiles[i]) # ""
            /\ \A j \in 1..(i - 1) : validateProfile(profiles[j]) = ""
    ELSE 0

\* buildMavenCommand appending the settings file before the skip-tests flag
buildMavenCommand_SettingsFirst(c) ==
    LET pomPath == IF c.PomPath = <<>> THEN sPomXml ELSE c.PomPath
        a1 == <<sDeploy>> \o <<sFlagF, pomPath>>
        a2 == IF c.Settings # <<>> THEN a1 \o <<sFlagS, c.Settings>> ELSE a1
        a3 == IF c.SkipTests THEN a2 \o <<sFlagSkipTests>> ELSE a2
        a4 == IF Len(c.Profiles) > 0
              THEN a3 \o <<sFlagP, Join(c.Profiles, <<",">>)>> ELSE a3
    IN IF validatePath(pomPath) # ""
          THEN [err |-> "invalid pom_path: " \o validatePath(pomPath),
                args |-> <<>>]
       ELSE IF c.Settings # <<>> /\ validatePath(c.Settings) # ""
          THEN [err |-> "invalid settings path: " \o validatePath(c.Settings),
                args |-> <<>>]
       ELSE IF FirstBadProfile(c.Profiles) # 0
          THEN [err |-> "invalid profile", args |-> <<>>]
       ELSE [err |-> "", args |-> a4]

\* buildMavenCommand taking the settings path as it is
buildMavenCommand_UncheckedSettings(c) ==
    LET pomPath == IF c.PomPath = <<>> THEN sPomXml ELSE c.PomPath
        a1 == <<sDeploy>> \o <<sFlagF, pomPath>>
        a2 == IF c.SkipTests THEN a1 \o <<sFlagSkipTests>> ELSE a1
        a3 == IF c.Settings # <<>> THEN a2 \o <<sFlagS, c.Settings>> ELSE a2
        a4 == IF Len(c.Profiles) > 0
              THEN a3 \o <<sFlagP, Join(c.Profiles, <<",">>)>> ELSE a3
    IN IF validatePath(pomPath) # ""
          THEN [err |-> "invalid pom_path: " \o validatePath(pomPath),
                args |-> <<>>]
       ELSE IF FirstBadProfile(c.Profiles) # 0
          THEN [err |-> "invalid profile", args |-> <<>>]
       ELSE [err |-> "", args |-> a4]

\* buildMavenCommand: [err, args]; args is <<>> (nil) with an error
buildMavenCommand(c) ==
    LET pomPath == IF c.PomPath = <<>> THEN sPomXml ELSE c.PomPath
        a1 == <<sDeploy>> \o <<sFlagF, pomPath>>
        a2 == IF c.SkipTests THEN a1 \o <<sFlagSkipTests>> ELSE a1
        a3 == IF c.Settings # <<>> THEN a2 \o <<sFlagS, c.Settings>> ELSE a2
        a4 == IF Len(c.Profiles) > 0
              THEN a3 \o <<sFlagP, Join(c.Profiles, <<",">>)>> ELSE a3
        bad == FirstBadProfile(c.Profiles)
    IN IF validatePath(pomPath) # ""
          THEN [err |-> "invalid pom_path: " \o validatePath(pomPath),
                args |-> <<>>]
       ELSE IF c.Settings # <<>> /\ validatePath(c.Settings) # ""
          THEN [err |-> "invalid settings path: " \o validatePath(c.Settings),
                args |-> <<>>]
       ELSE IF bad # 0
          THEN [err |-> "invalid profile '" \o Str(c.Profiles[bad]) \o "': "
                        \o validateProfile(c.Profiles[bad]),
                args |-> <<>>]
       ELSE [err |-> "", args |-> a4]

(***************************************************************************)
(* deploy                                                                  *)
(***************************************************************************)
\* deploy's repository check, r being what validateRepositoryURL returned
deployRepository(r) ==
    [err |-> IF r.err # "" THEN "invalid repository URL: " \o r.err ELSE "",
     checks |-> <<"group_id", "artifact_id", "repository">>,
     lookups |-> r.lookups]

\* deployValidate without the repository check
deployValidate_NoRepository(c, answer) ==
    IF validateMavenCoordinate(c.GroupID, "group_id") # ""
        THEN [err |-> validateMavenCoordinate(c.GroupID, "group_id"),
              checks |-> <<"group_id">>, lookups |-> <<>>]
    ELSE IF validateMavenCoordinate(c.ArtifactID, "artifact_id") # ""
        THEN [err |-> validateMavenCoordinate(c.ArtifactID, "artifact_id"),
              checks |-> <<"group_id", "artifact_id">>, lookups |-> <<>>]
    ELSE [err |-> "", checks |-> <<"group_id", "artifact_id">>,
          lookups |-> <<>>]

\* deployValidate checking the repository before the coordinates
deployValidate_RepositoryFirst(c, answer) ==
    IF validateRepositoryURL(c.Repository, answer).err # ""
        THEN [err |-> "invalid repository URL: "
                      \o validateRepositoryURL(c.Repository, answer).err,
              checks |-> <<"repository">>,
              lookups |-> validateRepositoryURL(c.Repository, answer).lookups]
    ELSE IF validateMavenCoordinate(c.GroupID, "group_id") # ""
        THEN [err |-> validateMavenCoordinate(c.GroupID, "group_id"),
              checks |-> <<"repository", "group_id">>,
              lookups |-> validateRepositoryURL(c.Repository, answer).lookups]
    ELSE [err |-> validateMavenCoordinate(c.ArtifactID, "artifact_id"),
          checks |-> <<"repository", "group_id", "artifact_id">>,
          lookups |-> validateRepositoryURL(c.Repository, answer).lookups]

\* the three checks deploy makes before it builds the command:
\* [err, checks, lookups], checks naming the checks made, in order
deployValidate(c, answer) ==
    IF validateMavenCoordinate(c.GroupID, "group_id") # ""
        THEN [err |-> validateMavenCoordinate(c.GroupID, "group_id"),
              checks |-> <<"group_id">>, lookups |-> <<>>]
    ELSE IF validateMavenCoordinate(c.ArtifactID, "artifact_id") # ""
        THEN [err |-> validateMavenCoordinate(c.ArtifactID, "artifact_id"),
              checks |-> <<"group_id", "artifact_id">>, lookups |-> <<>>]
    ELSE deployRepository(validateRepositoryURL(c.Repository, answer))

NoOutputs == <<>>

\* Failure leaving the success flag set
Failure_SuccessSet(text) ==
    [success |-> TRUE, message |-> "", error |-> text, outputs |-> NoOutputs]

Failure(text) ==
    [success |-> FALSE, message |-> "", error |-> text, outputs |-> NoOutputs]

\* PreviewResponse without the space between "mvn" and the first token
PreviewResponse_NoSpace(c, ver, a) ==
    [success |-> TRUE,
     message |-> "Would deploy Maven artifact",
     error   |-> "",
     outputs |-> [group_id    |-> c.GroupID,
                  artifact_id |-> c.ArtifactID,
                  version     |-> ver,
                  pom_path    |-> c.PomPath,
                  command     |-> sMvn \o Join(a, <<" ">>),
                  skip_tests  |-> c.SkipTests,
                  profiles    |-> c.Profiles]]

\* PreviewResponse showing the user name in the command
PreviewResponse_WithUsername(c, ver, a) ==
    [success |-> TRUE,
     message |-> "Would deploy Maven artifact",
     error   |-> "",
     outputs |-> [group_id    |-> c.GroupID,
                  artifact_id |-> c.ArtifactID,
                  version     |-> ver,
                  pom_path    |-> c.PomPath,
                  command     |-> <<"m","v","n"," ">> \o Join(a, <<" ">>)
                                  \o <<" ","-","D","u","=">> \o c.Username,
                  skip_tests  |-> c.SkipTests,
                  profiles    |-> c.Profiles]]

\* the response of a dry run
PreviewResponse(c, ver, a) ==
    [success |-> TRUE,
     message |-> "Would deploy Maven artifact",
     error   |-> "",
     outputs |-> [group_id    |-> c.GroupID,
                  artifact_id |-> c.ArtifactID,
                  version     |-> ver,
                  pom_path    |-> c.PomPath,
                  command     |-> <<"m","v","n"," ">> \o Join(a, <<" ">>),
                  skip_tests  |-> c.SkipTests,
                  profiles    |-> c.Profiles]]

\* RunResponse with "/" between the coordinates of the message
RunResponse_SlashMessage(c, ver, outcome) ==
    IF outcome.err # ""
    THEN Failure("Maven deploy failed: " \o outcome.err \o "\nOutput: "
                 \o Str(outcome.output))
    ELSE [success |-> TRUE,
          message |-> "Deployed Maven artifact " \o Str(c.GroupID) \o "/"
                      \o Str(c.ArtifactID) \o "/" \o Str(ver),
          error   |-> "",
          outputs |-> [group_id    |-> c.GroupID,
                       artifact_id |-> c.ArtifactID,
                       version     |-> ver]]

\* RunResponse leaving the output of the process out of the error
RunResponse_ErrorOnly(c, ver, outcome) ==
    IF outcome.err # ""
    THEN Failure("Maven deploy failed: " \o outcome.err)
    ELSE [success |-> TRUE,
          message |-> "Deployed Maven artifact " \o Str(c.GroupID) \o ":"
                      \o Str(c.ArtifactID) \o ":" \o Str(ver),
          error   |-> "",
          outputs |-> [group_id    |-> c.GroupID,
                       artifact_id |-> c.ArtifactID,
                       version     |-> ver]]

\* the response to what executor.Run returned
RunResponse(c, ver, outcome) ==
    IF outcome.err # ""
    THEN Failure("Maven deploy failed: " \o outcome.err \o "\nOutput: "
                 \o Str(outcome.output))
    ELSE [success |-> TRUE,
          message |-> "Deployed Maven artifact " \o Str(c.GroupID) \o ":"
                      \o Str(c.ArtifactID) \o ":" \o Str(ver),
          error   |-> "",
          outputs |-> [group_id    |-> c.GroupID,
                       artifact_id |-> c.ArtifactID,
                       version     |-> ver]]

(***************************************************************************)
(* Validate                                                                *)
(***************************************************************************)
\* the entries Validate adds for the profiles, one per failing one, in order
RECURSIVE ProfileErrors(_)
ProfileErrors(profiles) ==
    IF profiles = <<>> THEN <<>>
    ELSE (IF validateProfile(Head(profiles)) # ""
          THEN << [field |-> "profiles",
                   message |-> "invalid profile '" \o Str(Head(profiles))
                               \o "': " \o validateProfile(Head(profiles))] >>
          ELSE <<>>)
         \o ProfileErrors(Tail(profiles))

\* one entry of the ValidationBuilder, none when message is ""
Entry(field, message) ==
    IF message # "" THEN << [field |-> field, message |-> message] >> ELSE <<>>

\* RequiredCoordinate asking only that the coordinate is there
RequiredCoordinate_PresenceOnly(value, field, required) ==
    IF value = <<>> THEN required ELSE ""

\* Validate's check of a coordinate: required, then validateMavenCoordinate
RequiredCoordinate(value, field, required) ==
    IF value = <<>> THEN required ELSE validateMavenCoordinate(value, field)

\* ValidateWith stopping at the first coordinate that fails
ValidateWith_FailFast(config, rep) ==
    IF RequiredCoordinate(config.group_id, "group_id", "required") # ""
    THEN [errors |-> Entry("group_id",
                           RequiredCoordinate(config.group_id, "group_id",
                                              "Maven group ID is required")),
          lookups |-> <<>>]
    ELSE IF RequiredCoordinate(config.artifact_id, "artifact_id", "required") # ""
    THEN [errors |-> Entry("artifact_id",
                           RequiredCoordinate(config.artifact_id, "artifact_id",
                                              "Maven artifact ID is required")),
          lookups |-> <<>>]
    ELSE [errors |->
            Entry("pom_path",
                  validatePath(IF config.pom_path = <<>> THEN sPomXml
                               ELSE config.pom_path))
            \o Entry("repository",
                     IF config.repository # <<>> THEN rep.err ELSE "")
            \o Entry("settings",
                     IF config.settings # <<>> THEN validatePath(config.settings)
                     ELSE "")
            \o ProfileErrors(config.profiles),
          lookups |-> IF config.repository # <<>> THEN rep.lookups ELSE <<>>]

\* Validate, with rep what validateRepositoryURL returns for the repository
ValidateWith(config, rep) ==
    [errors |->
        Entry("group_id", RequiredCoordinate(config.group_id, "group_id",
                                             "Maven group ID is required"))
        \o Entry("artifact_id",
                 RequiredCoordinate(config.artifact_id, "artifact_id",
                                    "Maven artifact ID is required"))
        \o Entry("pom_path",
                 validatePath(IF config.pom_path = <<>> THEN sPomXml
                              ELSE config.pom_path))
        \o Entry("repository",
                 IF config.repository # <<>> THEN rep.err ELSE "")
        \o Entry("settings",
                 IF config.settings # <<>> THEN validatePath(config.settings)
                 ELSE "")
        \o ProfileErrors(config.profiles),
     lookups |-> IF config.repository # <<>> THEN rep.lookups ELSE <<>>]

\* vb.Build(): valid when no error was added
Build(v) ==
    [resp |-> [valid |-> v.errors = <<>>, errors |-> v.errors],
     lookups |-> v.lookups]

\* Validate: [resp, lookups]; resp is what vb.Build() returns
ValidateConfig(config, answer) ==
    Build(ValidateWith(config, validateRepositoryURL(config.repository, answer)))

(***************************************************************************)
(* Inputs                                                                  *)
(***************************************************************************)
MaxProfiles == 2
MaxPathLen == 7
MaxIPs == 2

SeqsUpTo(S, n) == UNION {[1..k -> S] : k \in 0..n}

HookPostPublish == "post-publish"
Hooks == {HookPostPublish, "pre-publish"}

GroupIDs == {<<"c",".","e">>, <<>>, <<"c",";"," ","r">>}
ArtifactIDs == {<<"l","i","b">>, <<>>, <<"a",".",".","b">>}
PomPaths == {<<>>, <<"m","/","p">>, <<".",".","/","p">>}
SettingsPaths == {<<>>, <<"s"," ","x">>, <<"a","/",".",".","/",".",".","/","s">>}
ProfileNames == {<<"r","e","l">>, <<"1","x">>}
ProfileLists == SeqsUpTo(ProfileNames, MaxProfiles)
Versions == {<<"1",".","0">>}

PublicIP == <<8, 8, 8, 8>>
MetadataIP == <<169, 254, 169, 254>>
PrivateIP6 == <<253, 0, 14, 194, 0, 0, 0, 0, 0, 0, 0, 0, 0, 0, 2, 84>>
DnsFailure == [err |-> "lookup h.io: no such host", ips |-> <<>>]

\* what the resolver may answer: a failure, or one address or more
DnsAnswers ==
    {DnsFailure} \cup
    {[err |-> "", ips |-> q] :
        q \in SeqsUpTo({PublicIP, MetadataIP, PrivateIP6}, MaxIPs) \ {<<>>}}

DeployDnsAnswers ==
    {DnsFailure, [err |-> "", ips |-> <<PublicIP>>],
     [err |-> "", ips |-> <<PublicIP, MetadataIP>>]}

sHost == <<"h",".","i","o">>
sPrivateHost == <<"1","0",".","0",".","0",".","1">>

Repositories ==
    {<<>>,
     sHttps \o <<":","/","/">> \o sHost \o <<"/","x">>,
     <<"h","t","t","p",":","/","/">> \o sHost,
     <<"h","t","t","p",":","/","/">> \o sLocalhost \o <<":","8","/","x">>,
     sHttps \o <<":","/","/">> \o sPrivateHost,
     <<":","x">>}

\* URLs put together from a scheme, "//", a user, a host, a port and a path
UrlSchemes == {<<>>, sHttps \o <<":">>, <<"h","t","t","p",":">>,
               <<"H","T","T","P","S",":">>}
UrlSlashes == {<<>>, <<"/","/">>}
UrlUsers == {<<>>, <<"u","@">>}
UrlHosts == {<<>>, sLocalhost, sLoopback4, <<"[">> \o sLoopback6 \o <<"]">>,
             sHost, sPrivateHost, sLocalhost \o <<".">> \o sHost}
UrlPorts == {<<>>, <<":","8">>, <<":","x">>}
UrlPaths == {<<>>, <<"/","x">>}
Urls ==
    {sc \o sl \o us \o ho \o po \o pa :
        sc \in UrlSchemes, sl \in UrlSlashes, us \in UrlUsers,
        ho \in UrlHosts, po \in UrlPorts, pa \in UrlPaths}

PathChars == {"a", ".", "/"}
Paths == SeqsUpTo(PathChars, MaxPathLen)

\* what executor.Run may return: [err, output]
ExecOutcomes ==
    {[err |-> "", output |-> <<"O","K">>],
     [err |-> "exit status 1", output |-> <<"E","R","R","O","R">>],
     [err |-> "exec: \"mvn\": executable file not found in $PATH",
      output |-> <<>>]}

RawConfigs ==
    [group_id : GroupIDs, artifact_id : ArtifactIDs, pom_path : PomPaths,
     username : {<<>>}, password : {<<>>}, repository : Repositories,
     skip_tests : BOOLEAN, settings : SettingsPaths, profiles : ProfileLists]

\* the empty map, and what parseConfig makes of it
EmptyRaw ==
    [group_id |-> <<>>, artifact_id |-> <<>>, pom_path |-> <<>>,
     username |-> <<>>, password |-> <<>>, repository |-> <<>>,
     skip_tests |-> FALSE, settings |-> <<>>, profiles |-> <<>>]

NoConfig == parseConfig(EmptyRaw)

(***************************************************************************)
(* One invocation of Execute or Validate                                   *)
(***************************************************************************)
Fresh ==
    /\ cfg = NoConfig
    /\ args = <<>>
    /\ checks = <<>>
    /\ lookups = <<>>
    /\ runCalls = <<>>
    /\ resp = <<>>
    /\ vresp = <<>>

Init ==
    /\ pc = "Idle"
    /\ hook \in Hooks
    /\ dryRun \in BOOLEAN
    /\ version \in Versions
    /\ raw \in RawConfigs
    /\ dns \in DeployDnsAnswers
    /\ fin = <<>>
    /\ fout = ""
    /\ Fresh

\* Execute calling deploy for every hook
Execute_AnyHook ==
    /\ pc = "Idle"
    /\ cfg' = parseConfig(raw)
    /\ pc' = "Validating"
    /\ UNCHANGED <<hook, dryRun, version, raw, dns, args, checks, lookups,
                   runCalls, resp, vresp, fin, fout>>

\* Execute: parseConfig and the switch on the hook
Execute ==
    /\ pc = "Idle"
    /\ cfg' = parseConfig(raw)
    /\ IF hook = HookPostPublish
       THEN /\ pc' = "Validating"
            /\ resp' = resp
       ELSE /\ pc' = "Unhandled"
            /\ resp' = Append(resp, [success |-> TRUE,
                                     message |-> "Hook " \o hook \o " not handled",
                                     error |-> "", outputs |-> NoOutputs])
    /\ UNCHANGED <<hook, dryRun, version, raw, dns, args, checks, lookups,
                   runCalls, vresp, fin, fout>>

\* deploy: the coordinate and repository checks
DeployValidate ==
    /\ pc = "Validating"
    /\ LET v == deployValidate(cfg, dns) IN
       /\ checks' = checks \o v.checks
       /\ lookups' = lookups \o v.lookups
       /\ IF v.err # ""
          THEN /\ pc' = "Rejected"
               /\ resp' = Append(resp, Failure(v.err))
          ELSE /\ pc' = "Building"
               /\ resp' = resp
    /\ UNCHANGED <<hook, dryRun, version, raw, dns, cfg, args, runCalls,
                   vresp, fin, fout>>

\* DeployBuild with a buildMavenCommand that joins the profiles in the config
DeployBuild_JoinsInPlace ==
    /\ pc = "Building"
    /\ LET b == buildMavenCommand(cfg) IN
       /\ checks' = Append(checks, "build")
       /\ cfg' = [cfg EXCEPT !.Profiles =
                    IF Len(cfg.Profiles) > 0
                    THEN <<Join(cfg.Profiles, <<",">>)>> ELSE <<>>]
       /\ IF b.err # ""
          THEN /\ pc' = "BuildFailed"
               /\ args' = args
               /\ resp' = Append(resp, Failure(b.err))
          ELSE /\ pc' = "Ready"
               /\ args' = b.args
               /\ resp' = resp
    /\ UNCHANGED <<hook, dryRun, version, raw, dns, lookups, runCalls,
                   vresp, fin, fout>>

\* deploy: the call of buildMavenCommand
DeployBuild ==
    /\ pc = "Building"
    /\ LET b == buildMavenCommand(cfg) IN
       /\ checks' = Append(checks, "build")
       /\ IF b.err # ""
          THEN /\ pc' = "BuildFailed"
               /\ args' = args
               /\ resp' = Append(resp, Failure(b.err))
          ELSE /\ pc' = "Ready"
               /\ args' = b.args
               /\ resp' = resp
    /\ UNCHANGED <<hook, dryRun, version, raw, dns, cfg, lookups, runCalls,
                   vresp, fin, fout>>

\* DeployPreview returning the preview whatever the dryRun flag says
DeployPreview_Always ==
    /\ pc = "Ready"
    /\ pc' = "Previewed"
    /\ resp' = Append(resp, PreviewResponse(cfg, version, args))
    /\ UNCHANGED <<hook, dryRun, version, raw, dns, cfg, args, checks,
                   lookups, runCalls, vresp, fin, fout>>

\* deploy: the dry run returns the preview
DeployPreview ==
    /\ pc = "Ready"
    /\ dryRun
    /\ pc' = "Previewed"
    /\ resp' = Append(resp, PreviewResponse(cfg, version, args))
    /\ UNCHANGED <<hook, dryRun, version, raw, dns, cfg, args, checks,
                   lookups, runCalls, vresp, fin, fout>>

\* deploy: executor.Run is called
DeployRun ==
    /\ pc = "Ready"
    /\ ~dryRun
    /\ pc' = "Running"
    /\ runCalls' = Append(runCalls, [name |-> sMvn, args |-> args])
    /\ UNCHANGED <<hook, dryRun, version, raw, dns, cfg, args, checks,
                   lookups, resp, vresp, fin, fout>>

\* DeployRunReturn trying again when executor.Run returned an error
DeployRunReturn_Retry ==
    /\ pc = "Running"
    /\ \E outcome \in ExecOutcomes :
        /\ pc' = IF outcome.err # "" THEN "Ready" ELSE "Executed"
        /\ resp' = IF outcome.err # "" THEN resp
                   ELSE Append(resp, RunResponse(cfg, version, outcome))
    /\ UNCHANGED <<hook, dryRun, version, raw, dns, cfg, args, checks,
                   lookups, runCalls, vresp, fin, fout>>

\* deploy: executor.Run returns
DeployRunReturn ==
    /\ pc = "Running"
    /\ \E outcome \in ExecOutcomes :
        /\ pc' = IF outcome.err # "" THEN "ExecutionFailed" ELSE "Executed"
        /\ resp' = Append(resp, RunResponse(cfg, version, outcome))
    /\ UNCHANGED <<hook, dryRun, version, raw, dns, cfg, args, checks,
                   lookups, runCalls, vresp, fin, fout>>

\* Validate
Validate ==
    /\ pc = "Idle"
    /\ LET v == ValidateConfig(raw, dns) IN
       /\ vresp' = Append(vresp, v.resp)
       /\ lookups' = lookups \o v.lookups
    /\ pc' = "Validated"
    /\ UNCHANGED <<hook, dryRun, version, raw, dns, cfg, args, checks,
                   runCalls, resp, fin, fout>>

Next ==
    \/ Execute
    \/ DeployValidate
    \/ DeployBuild
    \/ DeployPreview
    \/ DeployRun
    \/ DeployRunReturn
    \/ Validate

Spec == Init /\ [][Next]_vars

\* deploy runs on once it is called: every validator and buildMavenCommand
\* return, and so do net.LookupIP and executor.Run when the resolver and the
\* process answer. DeployValidate can be taken exactly when pc is
\* "Validating" and leaves it, so its weak fairness is that pc does not stay
\* there for ever.
DeployGoesOn ==
    /\ []<>(pc # "Validating")
    /\ WF_vars(DeployBuild)
    /\ WF_vars(DeployPreview)
    /\ WF_vars(DeployRun)
    /\ WF_vars(DeployRunReturn)

\* fewer configurations, with and without credentials; username and
\* password are what GetString finds in the map or in MAVEN_USERNAME and
\* MAVEN_PASSWORD
Credentials ==
    {[username |-> <<>>, password |-> <<>>],
     [username |-> <<"u","s","r">>, password |-> <<"p","w","d">>]}

SmallConfigs ==
    {[group_id |-> g, artifact_id |-> a, pom_path |-> p,
      username |-> c.username, password |-> c.password, repository |-> u,
      skip_tests |-> k, settings |-> <<>>, profiles |-> q] :
        g \in {<<"c",".","e">>, <<"o",".","e">>, <<"c",";"," ","r">>},
        a \in {<<"l","i","b">>, <<"j","a","r">>},
        p \in {<<>>, <<".",".","/","p">>},
        c \in Credentials,
        u \in {<<>>, sHttps \o <<":","/","/">> \o sHost \o <<"/","x">>,
               sHttps \o <<":","/","/">> \o sPrivateHost},
        k \in BOOLEAN,
        q \in {<<>>, <<<<"r","e","l">>>>}}

InitSmall ==
    /\ pc = "Idle"
    /\ hook \in Hooks
    /\ dryRun \in BOOLEAN
    /\ version \in Versions
    /\ raw \in SmallConfigs
    /\ dns \in DeployDnsAnswers
    /\ fin = <<>>
    /\ fout = ""
    /\ Fresh

SpecSmall == InitSmall /\ [][Next]_vars

SpecFair == SpecSmall /\ DeployGoesOn

(***************************************************************************)
(* validatePath on every path of up to MaxPathLen characters               *)
(***************************************************************************)
InitPath ==
    /\ pc = "Call"
    /\ fin \in Paths
    /\ fout = "unset"
    /\ hook = HookPostPublish /\ dryRun = TRUE /\ version \in Versions
    /\ raw = EmptyRaw
    /\ dns = DnsFailure
    /\ Fresh

CallValidatePath ==
    /\ pc = "Call"
    /\ fout' = validatePath(fin)
    /\ pc' = "Returned"
    /\ UNCHANGED <<hook, dryRun, version, raw, dns, cfg, args, checks,
                   lookups, runCalls, resp, vresp, fin>>

NextPath == CallValidatePath

SpecPath == InitPath /\ [][NextPath]_vars

(***************************************************************************)
(* validateRepositoryURL on every URL of Urls, under every DNS answer      *)
(***************************************************************************)
InitURL ==
    /\ pc = "Call"
    /\ fin \in Urls
    /\ fout = [err |-> "unset", lookups |-> <<>>]
    /\ hook = HookPostPublish /\ dryRun = TRUE /\ version \in Versions
    /\ raw = EmptyRaw
    /\ dns \in DnsAnswers
    /\ Fresh

CallValidateRepositoryURL ==
    /\ pc = "Call"
    /\ fout' = validateRepositoryURL(fin, dns)
    /\ lookups' = lookups \o fout'.lookups
    /\ pc' = "Returned"
    /\ UNCHANGED <<hook, dryRun, version, raw, dns, cfg, args, checks,
                   runCalls, resp, vresp, fin>>

NextURL == CallValidateRepositoryURL

SpecURL == InitURL /\ [][NextURL]_vars

(***************************************************************************)
(* buildMavenCommand on every Config of BuildConfigs                       *)
(***************************************************************************)
\* profile lists with two names validateProfile rejects, and with a comma
BuildProfileLists ==
    {<< <<"1","x">>, <<"a"," ","b">> >>, << <<"a"," ","b">>, <<"1","x">> >>,
     << <<"a",",","b">> >>, << <<"r","e","l">>, <<"a",",","b">> >>}

BuildConfigs ==
    [GroupID : {<<"c",".","e">>, <<"c",";"," ","r">>}, ArtifactID : {<<"l","i","b">>},
     PomPath : PomPaths \cup {sPomXml, <<"-","a">>},
     Username : {<<>>}, Password : {<<>>},
     Repository : {<<>>, <<":","x">>}, SkipTests : BOOLEAN,
     Settings : SettingsPaths \cup {<<"-","D","a">>},
     Profiles : ProfileLists \cup BuildProfileLists]

InitBuild ==
    /\ pc = "Call"
    /\ fin \in BuildConfigs
    /\ fout = [err |-> "unset", args |-> <<>>]
    /\ hook = HookPostPublish /\ dryRun = TRUE /\ version \in Versions
    /\ raw = EmptyRaw
    /\ dns = DnsFailure
    /\ Fresh

CallBuildMavenCommand ==
    /\ pc = "Call"
    /\ fout' = buildMavenCommand(fin)
    /\ pc' = "Returned"
    /\ UNCHANGED <<hook, dryRun, version, raw, dns, cfg, args, checks,
                   lookups, runCalls, resp, vresp, fin>>

NextBuild == CallBuildMavenCommand

SpecBuild == InitBuild /\ [][NextBuild]_vars

(***************************************************************************)
(* Properties                                                              *)
(***************************************************************************)
\* what each validator says of the fields of the parsed configuration
GroupErr == validateMavenCoordinate(cfg.GroupID, "group_id")
ArtifactErr == validateMavenCoordinate(cfg.ArtifactID, "artifact_id")
RepositoryRes == validateRepositoryURL(cfg.Repository, dns)
PomErr == validatePath(cfg.PomPath)
SettingsErr == IF cfg.Settings # <<>> THEN validatePath(cfg.Settings) ELSE ""
ProfilesOk == \A i \in 1..Len(cfg.Profiles) : validateProfile(cfg.Profiles[i]) = ""

AllFieldsPass ==
    /\ GroupErr = "" /\ ArtifactErr = "" /\ RepositoryRes.err = ""
    /\ PomErr = "" /\ SettingsErr = "" /\ ProfilesOk

\* Execute has returned its response
Returned == resp # <<>>

\* C1: executor.Run is called only in an invocation whose groupId and
\* artifactId passed validateMavenCoordinate, whose repository passed
\* validateRepositoryURL, whose pomPath and non-empty settings path passed
\* validatePath and whose profiles all passed validateProfile.
C1_RunOnlyWhenAllFieldsPass ==
    (runCalls # <<>> \/ pc = "Running") => (hook = HookPostPublish /\ AllFieldsPass)

\* a run reached executor.Run with a repository, a settings file and profiles
C1_Witness ==
    /\ Len(runCalls) = 1
    /\ cfg.Repository # <<>> /\ RepositoryRes.lookups # <<>>
    /\ cfg.Settings # <<>> /\ Len(cfg.Profiles) = 2

\* C2: a post-publish Execute without dryRun that passes validation and build
\* calls executor.Run exactly once, as "mvn" with the arguments
\* buildMavenCommand returned, never a second time, also after an error of
\* Run; an invocation that fails validation or build never calls it.
C2_RunExactlyOnce ==
    /\ Len(runCalls) <= 1
    /\ pc \in {"Running", "Executed", "ExecutionFailed"} =>
        /\ Len(runCalls) = 1
        /\ runCalls[1].name = <<"m", "v", "n">>
        /\ runCalls[1].args = args
        /\ args # <<>>
        /\ [err |-> "", args |-> args] = buildMavenCommand(cfg)
    /\ (Returned /\ hook = HookPostPublish /\ ~dryRun /\ AllFieldsPass) =>
        (Len(runCalls) = 1 /\ pc \in {"Executed", "ExecutionFailed"})
    /\ (Returned /\ ~AllFieldsPass) => runCalls = <<>>

\* executor.Run returned an error and the invocation ended with one call
C2_Witness ==
    /\ pc = "ExecutionFailed"
    /\ Len(runCalls) = 1
    /\ Len(runCalls[1].args) > 3

OutputKeysPreview ==
    {"group_id", "artifact_id", "version", "pom_path", "command",
     "skip_tests", "profiles"}

\* C3: a post-publish Execute with dryRun that passes validation and build
\* never calls executor.Run and returns success, the message "Would deploy
\* Maven artifact" and the outputs group_id, artifact_id, version, pom_path,
\* command, skip_tests and profiles; command is "mvn" and the argument
\* tokens, joined by single spaces.
C3_DryRunPreview ==
    /\ dryRun => (runCalls = <<>> /\ pc # "Running")
    /\ (Returned /\ hook = HookPostPublish /\ dryRun /\ AllFieldsPass) =>
        /\ pc = "Previewed"
        /\ Len(resp) = 1
        /\ resp[1].success
        /\ resp[1].message = "Would deploy Maven artifact"
        /\ resp[1].error = ""
        /\ DOMAIN resp[1].outputs = OutputKeysPreview
        /\ resp[1].outputs.command = Join(<<sMvn>> \o args, <<" ">>)
        /\ [err |-> "", args |-> args] = buildMavenCommand(cfg)
        /\ resp[1].outputs.group_id = cfg.GroupID
        /\ resp[1].outputs.artifact_id = cfg.ArtifactID
        /\ resp[1].outputs.version = version
        /\ resp[1].outputs.pom_path = cfg.PomPath
        /\ resp[1].outputs.skip_tests = cfg.SkipTests
        /\ resp[1].outputs.profiles = cfg.Profiles
    /\ pc = "Previewed" => (dryRun /\ AllFieldsPass)

\* a dry run previewed a command with the settings file and two profiles
C3_Witness ==
    /\ pc = "Previewed"
    /\ cfg.SkipTests /\ cfg.Settings # <<>> /\ Len(cfg.Profiles) = 2
    /\ Len(args) = 8

\* the checks of deploy in their order, and the error text of each
CheckOrder == <<"group_id", "artifact_id", "repository", "build">>

CheckErr(name) ==
    CASE name = "group_id" -> GroupErr
      [] name = "artifact_id" -> ArtifactErr
      [] name = "repository" ->
            IF RepositoryRes.err # ""
            THEN "invalid repository URL: " \o RepositoryRes.err ELSE ""
      [] name = "build" ->
            IF PomErr # "" THEN "invalid pom_path: " \o PomErr
            ELSE IF SettingsErr # "" THEN "invalid settings path: " \o SettingsErr
            ELSE IF ~ProfilesOk
                 THEN "invalid profile '"
                      \o Str(cfg.Profiles[FirstBadProfile(cfg.Profiles)]) \o "': "
                      \o validateProfile(cfg.Profiles[FirstBadProfile(cfg.Profiles)])
            ELSE ""

\* C4: a post-publish Execute checks groupId, artifactId, the repository and
\* then builds the command, and stops at the first failure: the response is
\* a failure with the error of the earliest failing check, the checks made
\* are those up to it, and no host is resolved when groupId or artifactId
\* is invalid.
C4_FirstFailureWins ==
    /\ pc \in {"Rejected", "BuildFailed"} =>
        LET k == Len(checks) IN
        /\ k >= 1
        /\ checks = SubSeq(CheckOrder, 1, k)
        /\ \A j \in 1..(k - 1) : CheckErr(CheckOrder[j]) = ""
        /\ CheckErr(CheckOrder[k]) # ""
        /\ resp = << [success |-> FALSE, message |-> "",
                      error |-> CheckErr(CheckOrder[k]),
                      outputs |-> NoOutputs] >>
        /\ (k <= 2 => lookups = <<>>)
        /\ runCalls = <<>>
    /\ (Returned /\ hook = HookPostPublish /\ ~AllFieldsPass) =>
        pc \in {"Rejected", "BuildFailed"}
    /\ (hook = HookPostPublish /\ (GroupErr # "" \/ ArtifactErr # "")
        /\ pc \notin {"Idle", "Validated"}) => lookups = <<>>

\* an invalid artifactId ended an invocation whose repository would have
\* been resolved and whose command would not have built
C4_Witness ==
    /\ pc = "Rejected"
    /\ checks = <<"group_id", "artifact_id">>
    /\ RepositoryRes.lookups # <<>> /\ RepositoryRes.err # ""
    /\ PomErr # ""

\* the field names of the entries Validate returned
ErrorFields == {vresp[1].errors[i].field : i \in 1..Len(vresp[1].errors)}

RawPomPath == IF raw.pom_path = <<>> THEN sPomXml ELSE raw.pom_path

\* C5: Validate checks groupId, artifactId, pomPath (default "pom.xml"), a
\* non-empty repository, a non-empty settings path and every profile, each
\* whatever the others give: the errors have an entry of a field exactly
\* when the check of that field fails, valid holds exactly when none fails,
\* and the empty config has entries for group_id and artifact_id.
C5_ValidateCollectsAll ==
    pc = "Validated" =>
        /\ Len(vresp) = 1
        /\ "group_id" \in ErrorFields
            <=> validateMavenCoordinate(raw.group_id, "group_id") # ""
        /\ "artifact_id" \in ErrorFields
            <=> validateMavenCoordinate(raw.artifact_id, "artifact_id") # ""
        /\ "pom_path" \in ErrorFields <=> validatePath(RawPomPath) # ""
        /\ "repository" \in ErrorFields
            <=> (raw.repository # <<>>
                 /\ validateRepositoryURL(raw.repository, dns).err # "")
        /\ "settings" \in ErrorFields
            <=> (raw.settings # <<>> /\ validatePath(raw.settings) # "")
        /\ "profiles" \in ErrorFields
            <=> \E i \in 1..Len(raw.profiles) : validateProfile(raw.profiles[i]) # ""
        /\ ErrorFields \subseteq {"group_id", "artifact_id", "pom_path",
                                  "repository", "settings", "profiles"}
        /\ vresp[1].valid <=> ErrorFields = {}
        /\ raw = EmptyRaw =>
            (~vresp[1].valid /\ {"group_id", "artifact_id"} \subseteq ErrorFields)

\* Validate reported every field of a config in which every field is wrong
C5_Witness ==
    /\ pc = "Validated"
    /\ ErrorFields = {"group_id", "artifact_id", "pom_path", "repository",
                      "settings", "profiles"}

\* Validate of the empty config
C5_WitnessEmpty == pc = "Validated" /\ raw = EmptyRaw

\* the number of tokens a part of the command takes
Tokens(present, n) == IF present THEN n ELSE 0

\* C6: for a config whose pomPath, settings path and profiles pass their
\* validators, buildMavenCommand returns "deploy", "-f", pomPath ("pom.xml"
\* when empty), then "-DskipTests" iff skipTests, then "-s", settings iff the
\* settings path is non-empty, then "-P", the profiles joined by commas iff
\* there are profiles, and no other token; building again gives the same.
C6_CommandTokens ==
    (pc = "Returned"
     /\ validatePath(IF fin.PomPath = <<>> THEN sPomXml ELSE fin.PomPath) = ""
     /\ validatePath(fin.Settings) = ""
     /\ \A i \in 1..Len(fin.Profiles) : validateProfile(fin.Profiles[i]) = "") =>
        LET a  == fout.args
            n1 == Tokens(fin.SkipTests, 1)
            n2 == Tokens(fin.Settings # <<>>, 2)
            n3 == Tokens(fin.Profiles # <<>>, 2)
        IN /\ fout.err = ""
           /\ Len(a) = 3 + n1 + n2 + n3
           /\ a[1] = <<"d","e","p","l","o","y">>
           /\ a[2] = <<"-","f">>
           /\ a[3] = (IF fin.PomPath = <<>> THEN <<"p","o","m",".","x","m","l">>
                      ELSE fin.PomPath)
           /\ fin.SkipTests => a[4] = <<"-","D","s","k","i","p","T","e","s","t","s">>
           /\ fin.Settings # <<>> =>
                (a[4 + n1] = <<"-","s">> /\ a[5 + n1] = fin.Settings)
           /\ fin.Profiles # <<>> =>
                (a[4 + n1 + n2] = <<"-","P">>
                 /\ a[5 + n1 + n2] = Join(fin.Profiles, <<",">>))
           /\ buildMavenCommand(fin) = fout

\* a command was built from a config with every optional part
C6_Witness ==
    /\ pc = "Returned"
    /\ fout.err = ""
    /\ fin.PomPath = <<>> /\ fin.SkipTests /\ fin.Settings # <<>>
    /\ Len(fin.Profiles) = 2
    /\ Len(fout.args) = 8

\* whether walking the segments of a relative path climbs above its start
RECURSIVE Climbs(_, _)
Climbs(segs, depth) ==
    IF segs = <<>> THEN FALSE
    ELSE IF Head(segs) \in {<<>>, <<".">>} THEN Climbs(Tail(segs), depth)
    ELSE IF Head(segs) = <<".", ".">>
        THEN depth = 0 \/ Climbs(Tail(segs), depth - 1)
    ELSE Climbs(Tail(segs), depth + 1)

\* the canonical form begins with a parent-directory segment
BeginsWithParent(cleaned) ==
    cleaned = <<".", ".">> \/ HasPrefix(cleaned, <<".", ".", "/">>)

\* C7: validatePath accepts the empty path and rejects every path whose
\* cleaned form is absolute ("absolute paths are not allowed") or begins
\* with a parent-directory segment ("path traversal detected"), whatever
\* the form of the input: "../../a" and "a/../.." are both rejected.
C7_PathEscapesRejected ==
    pc = "Returned" =>
        /\ fin = <<>> => fout = ""
        /\ (fin # <<>> /\ Clean(fin)[1] = "/") => fout = ErrAbsolute
        /\ (fin # <<>> /\ fin[1] = "/") => fout = ErrAbsolute
        /\ (fin # <<>> /\ BeginsWithParent(Clean(fin))) => fout = ErrTraversal
        /\ (fin # <<>> /\ fin[1] # "/" /\ Climbs(Split(fin, "/"), 0)) =>
                fout = ErrTraversal
        /\ fin \in {<<".",".","/",".",".","/","a">>,
                    <<"a","/",".",".","/",".",".">>} => fout = ErrTraversal

\* a path that does not begin with ".." was rejected for what it cleans to
C7_Witness ==
    /\ pc = "Returned"
    /\ fin = <<"a","/",".",".","/",".",".">>
    /\ Clean(fin) = <<".", ".">>
    /\ fout = ErrTraversal

\* the URL of the call parses, with this scheme and host name
UrlParses == fin # <<>> /\ urlParse(fin).err = ""
UrlScheme == urlParse(fin).scheme
UrlHostname == Hostname(urlParse(fin).host)
LocalNames == {<<"l","o","c","a","l","h","o","s","t">>,
               <<"1","2","7",".","0",".","0",".","1">>, <<":",":","1">>}
Resolved == LookupIP(UrlHostname, dns)

\* C8: for a non-empty URL of scheme "https" whose host is none of
\* "localhost", "127.0.0.1", "::1", validateRepositoryURL returns ok exactly
\* when the host resolves and no resolved address is private; a resolution
\* error is reported as such and one private address anywhere among the
\* resolved ones gives "URLs pointing to private networks are not allowed".
C8_HttpsHostResolvedAndChecked ==
    (pc = "Returned" /\ UrlParses /\ UrlScheme = <<"h","t","t","p","s">>
     /\ UrlHostname \notin LocalNames) =>
        /\ fout.err = "" <=>
            (Resolved.err = ""
             /\ \A i \in 1..Len(Resolved.ips) : ~isPrivateIP(Resolved.ips[i]))
        /\ Resolved.err # "" =>
            fout.err = "failed to resolve hostname: " \o Resolved.err
        /\ (Resolved.err = ""
            /\ \E i \in 1..Len(Resolved.ips) : isPrivateIP(Resolved.ips[i])) =>
            fout.err = "URLs pointing to private networks are not allowed"
        /\ lookups = <<UrlHostname>>

\* a host whose second address is the metadata address was rejected
C8_Witness ==
    /\ pc = "Returned"
    /\ UrlParses /\ UrlScheme = sHttps /\ UrlHostname = sHost
    /\ dns.err = "" /\ Len(dns.ips) = 2
    /\ ~isPrivateIP(dns.ips[1]) /\ dns.ips[2] = MetadataIP
    /\ fout.err = ErrPrivate

\* C9: for a non-empty URL that parses, whose host is none of "localhost",
\* "127.0.0.1", "::1" and whose scheme is not "https" (also when it has no
\* scheme), validateRepositoryURL fails with "only HTTPS URLs are allowed"
\* and no host has been resolved.
C9_OnlyHttps ==
    (pc = "Returned" /\ UrlParses /\ UrlScheme # <<"h","t","t","p","s">>
     /\ UrlHostname \notin LocalNames) =>
        /\ fout.err = "only HTTPS URLs are allowed (got " \o Str(UrlScheme) \o ")"
        /\ fout.lookups = <<>>
        /\ lookups = <<>>

\* a URL without a scheme was rejected
C9_Witness ==
    /\ pc = "Returned"
    /\ UrlParses /\ UrlScheme = <<>> /\ fin = sHost \o <<"/","x">>
    /\ fout.err = "only HTTPS URLs are allowed (got )"

\* C10: validateRepositoryURL accepts the empty URL and every URL that
\* parses with the host "localhost", "127.0.0.1" or "::1", whatever its
\* scheme, port and path, and resolves no host for them.
C10_LocalhostAccepted ==
    (pc = "Returned" /\ (fin = <<>> \/ (UrlParses /\ UrlHostname \in LocalNames))) =>
        /\ fout.err = ""
        /\ fout.lookups = <<>>
        /\ lookups = <<>>

\* the bracketed IPv6 loopback with a port was accepted over https, while
\* the resolver would have failed
C10_Witness ==
    /\ pc = "Returned"
    /\ fin = sHttps \o <<":","/","/","[",":",":","1","]",":","8","/","x">>
    /\ dns = DnsFailure
    /\ fout.err = ""

(***************************************************************************)
(* isPrivateIP on every address of IPs                                     *)
(***************************************************************************)
\* the IPv4-mapped IPv6 form of a 4-byte address
Mapped(b) == <<0, 0, 0, 0, 0, 0, 0, 0, 0, 0, 255, 255>> \o b

\* an IPv6 address of two leading bytes, zeros and one last byte
V6(b1, b2, last) == <<b1, b2, 0, 0, 0, 0, 0, 0, 0, 0, 0, 0, 0, 0, 0, last>>

IPv4s ==
    {<<a, b, c, d>> :
        a \in {0, 1, 8, 9, 10, 11, 126, 127, 128, 169, 170, 172, 173, 192,
               193, 224},
        b \in {0, 15, 16, 31, 32, 167, 168, 169, 253, 254, 255},
        c \in {0, 1, 169},
        d \in {0, 1, 254, 255}}
    \cup {<<8, 8, 8, 8>>, <<172, 15, 255, 255>>, <<172, 31, 255, 255>>}

IPv6s ==
    {V6(b1, b2, last) :
        b1 \in {0, 32, 251, 252, 253, 254, 255},
        b2 \in {0, 1, 2, 18, 127, 128, 191, 192},
        last \in {0, 1, 2}}
    \cup {PrivateIP6}

IPs == IPv4s \cup {Mapped(b) : b \in IPv4s} \cup IPv6s

InitIP ==
    /\ pc = "Call"
    /\ fin \in IPs
    /\ fout = FALSE
    /\ hook = HookPostPublish /\ dryRun = TRUE /\ version \in Versions
    /\ raw = EmptyRaw
    /\ dns = DnsFailure
    /\ Fresh

CallIsPrivateIP ==
    /\ pc = "Call"
    /\ fout' = isPrivateIP(fin)
    /\ pc' = "Returned"
    /\ UNCHANGED <<hook, dryRun, version, raw, dns, cfg, args, checks,
                   lookups, runCalls, resp, vresp, fin>>

NextIP == CallIsPrivateIP

SpecIP == InitIP /\ [][NextIP]_vars

\* the four bytes of an IPv4 address in either form, <<>> for any other
V4Bytes(ip) ==
    IF Len(ip) = 4 THEN ip
    ELSE IF SubSeq(ip, 1, 12) = <<0, 0, 0, 0, 0, 0, 0, 0, 0, 0, 255, 255>>
        THEN SubSeq(ip, 13, 16)
    ELSE <<>>

\* ip is an IPv4 address whose two leading bytes, read as a number, lie
\* between lo and hi
V4Between(ip, lo, hi) ==
    /\ V4Bytes(ip) # <<>>
    /\ V4Bytes(ip)[1] * 256 + V4Bytes(ip)[2] >= lo
    /\ V4Bytes(ip)[1] * 256 + V4Bytes(ip)[2] <= hi

\* the blocks the classifier lists, as ranges of addresses
InListedBlock(ip) ==
    \/ V4Between(ip, 10 * 256, 10 * 256 + 255)            \* 10.0.0.0/8
    \/ V4Between(ip, 172 * 256 + 16, 172 * 256 + 31)      \* 172.16.0.0/12
    \/ V4Between(ip, 192 * 256 + 168, 192 * 256 + 168)    \* 192.168.0.0/16
    \/ V4Between(ip, 127 * 256, 127 * 256 + 255)          \* 127.0.0.0/8
    \/ V4Between(ip, 169 * 256 + 254, 169 * 256 + 254)    \* 169.254.0.0/16
    \/ V4Between(ip, 0, 255)                              \* 0.0.0.0/8
    \/ V4Bytes(ip) = <<169, 254, 169, 254>>               \* 169.254.169.254/32
    \/ ip = <<253, 0, 14, 194, 0, 0, 0, 0, 0, 0, 0, 0, 0, 0, 2, 84>>

\* loopback, link-local unicast, link-local multicast or private by the
\* predicates of net.IP, as ranges of addresses
InGeneralRange(ip) ==
    \/ V4Between(ip, 127 * 256, 127 * 256 + 255)
    \/ V4Between(ip, 169 * 256 + 254, 169 * 256 + 254)
    \/ (V4Between(ip, 224 * 256, 224 * 256) /\ V4Bytes(ip)[3] = 0)
    \/ V4Between(ip, 10 * 256, 10 * 256 + 255)
    \/ V4Between(ip, 172 * 256 + 16, 172 * 256 + 31)
    \/ V4Between(ip, 192 * 256 + 168, 192 * 256 + 168)
    \/ (V4Bytes(ip) = <<>>
        /\ \/ ip = V6(0, 0, 1)                            \* ::1
           \/ (ip[1] = 254 /\ ip[2] \in 128..191)         \* fe80::/10
           \/ (ip[1] = 255 /\ ip[2] % 16 = 2)             \* ffx2::/16
           \/ ip[1] \in {252, 253})                       \* fc00::/7

\* C11: isPrivateIP(ip) is true exactly when ip lies in 10.0.0.0/8,
\* 172.16.0.0/12, 192.168.0.0/16, 127.0.0.0/8, 169.254.0.0/16, 0.0.0.0/8,
\* 169.254.169.254/32 or fd00:ec2::254/128, or is loopback, link-local
\* unicast, link-local multicast or private for net.IP; so it is true for
\* 10.0.0.1, 172.16.0.1, 192.168.1.1, 127.0.0.1, 169.254.0.1 and
\* 169.254.169.254 and false for 8.8.8.8, 172.15.255.255, 172.32.0.0 and
\* 11.0.0.0.
C11_PrivateExactlyListed ==
    pc = "Returned" =>
        /\ fout <=> (InListedBlock(fin) \/ InGeneralRange(fin))
        /\ V4Bytes(fin) \in {<<10, 0, 0, 1>>, <<172, 16, 0, 1>>,
                             <<192, 168, 1, 1>>, <<127, 0, 0, 1>>,
                             <<169, 254, 0, 1>>, <<169, 254, 169, 254>>}
            => fout
        /\ V4Bytes(fin) \in {<<8, 8, 8, 8>>, <<172, 15, 255, 255>>,
                             <<172, 32, 0, 0>>, <<11, 0, 0, 0>>}
            => ~fout

\* an address just below 172.16.0.0/12 was classified public
C11_Witness ==
    pc = "Returned" /\ fin = <<172, 15, 255, 255>> /\ ~fout

\* an IPv6 link-local address, in no listed block, was classified private
C11_WitnessGeneral ==
    pc = "Returned" /\ fin = V6(254, 128, 1) /\ fout /\ ~InListedBlock(fin)

(***************************************************************************)
(* validateMavenCoordinate and validateProfile on every name of Names      *)
(***************************************************************************)
MaxNameLen == 3

\* the grave accent (U+0060), which a string literal here cannot hold
Backtick == "U+0060"

NameChars == {"a", "1", ".", "-", "_", ",", ";", "$", "(", Backtick, " "}

\* n characters: the prefix, then "a"s, then the suffix
Padded(n, prefix, suffix) ==
    prefix \o [i \in 1..(n - Len(prefix) - Len(suffix)) |-> "a"] \o suffix

\* names around the two length limits, plain and with something in them
LongNames ==
    {Padded(n, prefix, suffix) :
        n \in {127, 128, 129, 255, 256, 257},
        prefix \in {<<>>, <<"1">>, <<"-">>},
        suffix \in {<<>>, <<";">>, <<".", ".">>, <<" ">>, <<"$", "(">>}}

Names ==
    SeqsUpTo(NameChars, MaxNameLen) \cup LongNames
    \cup {<<"a", "\t">>, <<"a", "\n">>, <<"a", Backtick, "i", "d", Backtick>>}

FieldNames == {"group_id", "artifact_id"}

NotCalled == "not called"

InitNames ==
    /\ pc = "Call"
    /\ fin \in [value : Names, field : FieldNames]
    /\ fout = [coordinate |-> NotCalled, profile |-> NotCalled]
    /\ hook = HookPostPublish /\ dryRun = TRUE /\ version \in Versions
    /\ raw = EmptyRaw
    /\ dns = DnsFailure
    /\ Fresh

CallValidateMavenCoordinate ==
    /\ pc = "Call"
    /\ fout.coordinate = NotCalled
    /\ fout' = [fout EXCEPT
                  !.coordinate = validateMavenCoordinate(fin.value, fin.field)]
    /\ UNCHANGED <<pc, hook, dryRun, version, raw, dns, cfg, args, checks,
                   lookups, runCalls, resp, vresp, fin>>

CallValidateProfile ==
    /\ pc = "Call"
    /\ fout.profile = NotCalled
    /\ fout' = [fout EXCEPT !.profile = validateProfile(fin.value)]
    /\ UNCHANGED <<pc, hook, dryRun, version, raw, dns, cfg, args, checks,
                   lookups, runCalls, resp, vresp, fin>>

NextNames == CallValidateMavenCoordinate \/ CallValidateProfile

SpecNames == InitNames /\ [][NextNames]_vars

CoordinateCalled == pc = "Call" /\ fout.coordinate # NotCalled
ProfileCalled == pc = "Call" /\ fout.profile # NotCalled

\* one alphanumeric, then alphanumerics, dots, dashes or underscores
CoordinateForm(v) ==
    /\ v # <<>>
    /\ v[1] \in Alnum
    /\ \A i \in 2..Len(v) : v[i] \in Alnum \/ v[i] \in {".", "-", "_"}

HasDotDot(v) == \E i \in 1..(Len(v) - 1) : v[i] = "." /\ v[i + 1] = "."

ErrDisallowed(field) == "invalid " \o field \o ": contains disallowed characters"

\* C12: validateMavenCoordinate reports the first failing check of: empty
\* ("<field> cannot be empty"), longer than 256 ("too long"), not one
\* alphanumeric followed by alphanumerics, dots, dashes or underscores
\* ("disallowed characters"), containing ".." ("cannot contain '..'"); a
\* well-formed value of 256 characters without ".." is accepted and one of
\* 257 is rejected.
C12_CoordinateChecksInOrder ==
    CoordinateCalled =>
        LET v == fin.value
            r == fout.coordinate
        IN /\ v = <<>> => r = fin.field \o " cannot be empty"
           /\ Len(v) > 256 => r = fin.field \o " too long (max 256 characters)"
           /\ (Len(v) \in 1..256 /\ ~CoordinateForm(v)) => r = ErrDisallowed(fin.field)
           /\ (Len(v) \in 1..256 /\ CoordinateForm(v) /\ HasDotDot(v)) =>
                r = fin.field \o " cannot contain '..'"
           /\ (Len(v) \in 1..256 /\ CoordinateForm(v) /\ ~HasDotDot(v)) => r = ""
           /\ (Len(v) = 256 /\ CoordinateForm(v) /\ ~HasDotDot(v)) => r = ""
           /\ Len(v) = 257 => r # ""

\* a well-formed value of exactly 256 characters was accepted
C12_Witness ==
    /\ CoordinateCalled
    /\ Len(fin.value) = 256 /\ CoordinateForm(fin.value) /\ ~HasDotDot(fin.value)
    /\ fout.coordinate = ""

\* a value of 257 characters with a ";" was reported as too long
C12_WitnessOrder ==
    /\ CoordinateCalled
    /\ Len(fin.value) = 257 /\ ~CoordinateForm(fin.value)
    /\ fout.coordinate = fin.field \o " too long (max 256 characters)"

\* the value has a ";", a "$(", a backtick or a white space
Hostile(v) ==
    \/ \E i \in 1..Len(v) : v[i] \in {";", Backtick, " ", "\t", "\n"}
    \/ \E i \in 1..(Len(v) - 1) : v[i] = "$" /\ v[i + 1] = "("

ErrProfileForm ==
    "invalid profile name: must be alphanumeric with dashes or underscores"

\* C13 as stated: every string with a ";", a "$(", a backtick or a white
\* space is rejected by validateMavenCoordinate with "disallowed
\* characters" and by validateProfile with "must be alphanumeric with dashes
\* or underscores".
C13_HostileGetsGrammarError ==
    /\ (CoordinateCalled /\ Hostile(fin.value)) =>
            fout.coordinate = ErrDisallowed(fin.field)
    /\ (ProfileCalled /\ Hostile(fin.value)) => fout.profile = ErrProfileForm

\* C13 as amended: every such string is rejected by both validators, with
\* the grammar error when it is within the validator's length limit (256,
\* 128) and with the "too long" error when it is longer.
C13_HostileRejected ==
    /\ (CoordinateCalled /\ Hostile(fin.value)) =>
            fout.coordinate =
                (IF Len(fin.value) <= 256 THEN ErrDisallowed(fin.field)
                 ELSE fin.field \o " too long (max 256 characters)")
    /\ (ProfileCalled /\ Hostile(fin.value)) =>
            fout.profile =
                (IF Len(fin.value) <= 128 THEN ErrProfileForm
                 ELSE "profile name too long (max 128 characters)")

\* both validators rejected a value that starts well and has a "$(" in it
C13_Witness ==
    /\ CoordinateCalled /\ ProfileCalled
    /\ fin.value = <<"a", "$", "(">>
    /\ fout.coordinate = ErrDisallowed(fin.field)
    /\ fout.profile = ErrProfileForm

\* one alphabetic, then alphanumerics, dashes or underscores
ProfileForm(v) ==
    /\ v # <<>>
    /\ v[1] \in Alpha
    /\ \A i \in 2..Len(v) : v[i] \in Alnum \/ v[i] \in {"-", "_"}

\* C14: validateProfile reports the first failing check of: empty ("cannot
\* be empty"), longer than 128 ("too long"), not one alphabetic followed by
\* alphanumerics, dashes or underscores ("must be alphanumeric with dashes
\* or underscores"), so a name starting with a digit or having a dot, a
\* comma or a space is rejected; 128 characters are accepted, 129 are not.
C14_ProfileChecksInOrder ==
    ProfileCalled =>
        LET v == fin.value
            r == fout.profile
        IN /\ v = <<>> => r = "profile name cannot be empty"
           /\ Len(v) > 128 => r = "profile name too long (max 128 characters)"
           /\ (Len(v) \in 1..128 /\ ~ProfileForm(v)) => r = ErrProfileForm
           /\ (Len(v) \in 1..128 /\ ProfileForm(v)) => r = ""
           /\ (Len(v) \in 1..128
               /\ (v[1] \in Digit \/ \E i \in 1..Len(v) : v[i] \in {".", ",", " "}))
                => r = ErrProfileForm
           /\ Len(v) = 129 => r # ""

\* a well-formed name of exactly 128 characters was accepted
C14_Witness ==
    /\ ProfileCalled
    /\ Len(fin.value) = 128 /\ ProfileForm(fin.value)
    /\ fout.profile = ""

\* a name of 129 characters with a ";" was reported as too long
C14_WitnessOrder ==
    /\ ProfileCalled
    /\ Len(fin.value) = 129 /\ ~ProfileForm(fin.value)
    /\ fout.profile = "profile name too long (max 128 characters)"

\* C15: for a hook other than post-publish, Execute returns success with
\* the message "Hook <name> not handled", and no validator, DNS lookup or
\* call of executor.Run happens, whatever the config and the dryRun flag.
C15_OtherHooksNotHandled ==
    /\ (hook # HookPostPublish /\ pc # "Validated") =>
        /\ pc \in {"Idle", "Unhandled"}
        /\ checks = <<>> /\ lookups = <<>> /\ runCalls = <<>> /\ args = <<>>
    /\ pc = "Unhandled" =>
        /\ hook # HookPostPublish
        /\ resp = <<[success |-> TRUE,
                     message |-> "Hook " \o hook \o " not handled",
                     error   |-> "",
                     outputs |-> <<>>]>>
    /\ (pc = "Unhandled" /\ hook = "pre-publish") =>
        resp[1].message = "Hook pre-publish not handled"

\* a pre-publish Execute without dryRun returned for a config whose groupId
\* is malformed and whose repository is set
C15_Witness ==
    /\ pc = "Unhandled"
    /\ ~dryRun
    /\ GroupErr # "" /\ cfg.GroupID # <<>>
    /\ cfg.Repository # <<>>
    /\ Len(resp) = 1

\* C16: when a post-publish Execute without dryRun passed validation and
\* build and executor.Run returned no error, the response has success, the
\* message "Deployed Maven artifact <groupId>:<artifactId>:<version>" and
\* exactly the outputs group_id, artifact_id and version, with the
\* configured coordinates and the version of the release context.
C16_DeployedResponse ==
    pc = "Executed" =>
        /\ hook = HookPostPublish /\ ~dryRun /\ AllFieldsPass
        /\ Len(runCalls) = 1
        /\ Len(resp) = 1
        /\ resp[1].success
        /\ resp[1].error = ""
        /\ resp[1].message =
            "Deployed Maven artifact " \o Str(raw.group_id) \o ":"
                \o Str(raw.artifact_id) \o ":" \o Str(version)
        /\ (raw.group_id = <<"c",".","e">> /\ raw.artifact_id = <<"l","i","b">>
            /\ version = <<"1",".","0">>) =>
                resp[1].message = "Deployed Maven artifact c.e:lib:1.0"
        /\ DOMAIN resp[1].outputs = {"group_id", "artifact_id", "version"}
        /\ resp[1].outputs.group_id = raw.group_id
        /\ resp[1].outputs.artifact_id = raw.artifact_id
        /\ resp[1].outputs.version = version

\* a deploy with a repository and profiles was executed
C16_Witness ==
    /\ pc = "Executed"
    /\ cfg.Repository # <<>> /\ cfg.Profiles # <<>>
    /\ resp[1].message = "Deployed Maven artifact c.e:lib:1.0"

\* C17: when executor.Run returns an error, the response has no success, no
\* outputs and the error "Maven deploy failed: <error>", a line break and
\* "Output: <output>", with the error and the output of that call as they
\* were returned; the invocation is over and executor.Run is not called again.
C17_ExecutionFailure ==
    pc = "ExecutionFailed" =>
        /\ ~dryRun
        /\ args = runCalls[1].args
        /\ Len(runCalls) = 1
        /\ Len(resp) = 1
        /\ ~resp[1].success
        /\ resp[1].outputs = <<>>
        /\ \E outcome \in ExecOutcomes :
            /\ outcome.err # ""
            /\ resp[1].error =
                "Maven deploy failed: " \o outcome.err \o "\nOutput: "
                    \o Str(outcome.output)
        /\ resp[1].error \in
            {"Maven deploy failed: exit status 1\nOutput: ERROR",
             "Maven deploy failed: exec: \"mvn\": executable file not found in $PATH\nOutput: "}

\* executor.Run failed with an output
C17_Witness ==
    /\ pc = "ExecutionFailed"
    /\ resp[1].error = "Maven deploy failed: exit status 1\nOutput: ERROR"

\* where an invocation of Execute ends
Failed == {"Rejected", "BuildFailed", "ExecutionFailed"}
Succeeded == {"Previewed", "Executed", "Unhandled"}

\* C18: every path through Execute ends with one response; a response has
\* success unset exactly when its error is not empty: unset with an error
\* after a validation, build or execution failure, set with no error for a
\* preview, an executed deploy and a hook that is not handled.
C18_AlwaysAResponse ==
    /\ Len(resp) <= 1
    /\ \A i \in 1..Len(resp) : (~resp[i].success) <=> (resp[i].error # "")
    /\ pc \in Failed => (Len(resp) = 1 /\ ~resp[1].success /\ resp[1].error # "")
    /\ pc \in Succeeded => (Len(resp) = 1 /\ resp[1].success /\ resp[1].error = "")
    /\ pc \in Failed \cup Succeeded
            \cup {"Idle", "Validating", "Building", "Ready", "Running", "Validated"}
    /\ Returned <=> pc \in Failed \cup Succeeded

\* the build failed and the response says so
C18_Witness ==
    /\ pc = "BuildFailed"
    /\ Len(resp) = 1
    /\ ~resp[1].success
    /\ resp[1].error # ""

\* what the validators buildMavenCommand calls say of the config given to it
BuildChecksPass ==
    /\ validatePath(IF fin.PomPath = <<>> THEN sPomXml ELSE fin.PomPath) = ""
    /\ validatePath(fin.PomPath) = ""
    /\ validatePath(fin.Settings) = ""
    /\ \A i \in 1..Len(fin.Profiles) : validateProfile(fin.Profiles[i]) = ""

\* what the other validators say of it
CoordinatesAndRepositoryPass ==
    /\ validateMavenCoordinate(fin.GroupID, "group_id") = ""
    /\ validateMavenCoordinate(fin.ArtifactID, "artifact_id") = ""
    /\ fin.Repository # <<>> => validateRepositoryURL(fin.Repository, dns).err = ""

\* C19 as stated: buildMavenCommand returns arguments only for a config
\* whose groupId, artifactId, pomPath, settings path, profiles and
\* repository all pass their validators.
C19_BuiltOnlyWhenAllFieldsPass ==
    (pc = "Returned" /\ fout.err = "") =>
        (BuildChecksPass /\ CoordinatesAndRepositoryPass)

\* C19 as amended: buildMavenCommand returns arguments exactly for the
\* configs whose pomPath, settings path and profiles pass validatePath and
\* validateProfile, and no arguments with an error for the others; it does
\* not look at groupId, artifactId and repository.
C19_BuiltOnlyWhenPathsAndProfilesPass ==
    pc = "Returned" =>
        /\ fout.err = "" <=> BuildChecksPass
        /\ fout.err # "" => fout.args = <<>>
        /\ fout.err = "" => fout.args # <<>>
        /\ fout = buildMavenCommand([fin EXCEPT !.GroupID = <<>>,
                                              !.ArtifactID = <<>>,
                                              !.Repository = <<>>])

\* arguments were built from a config with a malformed groupId and a
\* repository that is no URL
C19_Witness ==
    /\ pc = "Returned"
    /\ fout.err = ""
    /\ fin.Settings # <<>> /\ fin.Profiles # <<>>
    /\ validateMavenCoordinate(fin.GroupID, "group_id") # ""
    /\ validateRepositoryURL(fin.Repository, dns).err # ""

\* C20: validatePath gives a path and its cleaned form the same verdict
\* (accepted, absolute, traversal), and an already clean path the same
\* verdict however often it is validated.
C20_CleanKeepsVerdict ==
    pc = "Returned" =>
        /\ fout = validatePath(Clean(fin))
        /\ fout = validatePath(Clean(Clean(fin)))
        /\ fin = Clean(fin) => validatePath(fin) = fout

\* a path that is not clean and climbs out was rejected, as its cleaned form is
C20_Witness ==
    /\ pc = "Returned"
    /\ fin = <<"a","/",".",".","/",".",".">>
    /\ Clean(fin) # fin
    /\ fout = ErrTraversal
    /\ validatePath(Clean(fin)) = ErrTraversal

\* a path with ".." in it that cleans to a path inside was accepted
C20_WitnessInside ==
    /\ pc = "Returned"
    /\ fin = <<"a","/",".",".","/","a">>
    /\ Clean(fin) = <<"a">>
    /\ fout = ""

\* the steps of the position of a post-publish Execute
DeploySteps ==
    {<<"Idle", "Validating">>, <<"Validating", "Rejected">>,
     <<"Validating", "Building">>, <<"Building", "BuildFailed">>,
     <<"Building", "Ready">>, <<"Ready", "Previewed">>, <<"Ready", "Running">>,
     <<"Running", "Executed">>, <<"Running", "ExecutionFailed">>}

DeployEnds == {"Rejected", "BuildFailed", "Previewed", "Executed", "ExecutionFailed"}

\* between Ready and the end, executor.Run is being called
DeployStepOk ==
    (hook = HookPostPublish /\ pc' # pc /\ pc' # "Validated") =>
        /\ <<pc, pc'>> \in DeploySteps
        /\ pc' = "Previewed" => dryRun
        /\ pc' \in {"Running", "Executed", "ExecutionFailed"} => ~dryRun
        /\ pc' \in DeployEnds => (resp = <<>> /\ Len(resp') = 1)
        /\ pc' \notin DeployEnds => resp' = <<>>

\* an invocation that has ended takes no further step
DeployEndStays == (pc \in DeployEnds) => (pc' = pc /\ resp' = resp)

\* C21: a post-publish Execute moves only along Idle, Validating, then
\* Rejected or Building, then BuildFailed or Ready, then Previewed (only
\* with dryRun) or, through the call of executor.Run, Executed or
\* ExecutionFailed (only without dryRun); once deploy is called it ends in
\* one of these five ends, with one response, and stays there.
C21_DeployStateMachine ==
    /\ [][DeployStepOk]_vars
    /\ [][DeployEndStays]_vars
    /\ (hook = HookPostPublish /\ pc = "Validating")
            ~> (pc \in DeployEnds /\ Len(resp) = 1)

\* a deploy without dryRun went all the way to the end of executor.Run
C21_Witness ==
    /\ pc = "Executed"
    /\ ~dryRun
    /\ checks = <<"group_id", "artifact_id", "repository", "build">>
    /\ Len(resp) = 1

\* what validatePath says of the pom file and the settings file of the
\* config given to buildMavenCommand
BuildPomErr == validatePath(IF fin.PomPath = <<>> THEN sPomXml ELSE fin.PomPath)
BuildSettingsErr == IF fin.Settings = <<>> THEN "" ELSE validatePath(fin.Settings)

\* the error that names profile i, when it is the first one rejected
NamesFirstRejected(i) ==
    /\ validateProfile(fin.Profiles[i]) # ""
    /\ \A j \in 1..(i - 1) : validateProfile(fin.Profiles[j]) = ""
    /\ fout.err = "invalid profile '" \o Str(fin.Profiles[i]) \o "': "
                    \o validateProfile(fin.Profiles[i])

\* C22: buildMavenCommand checks pomPath, then the settings path, then the
\* profiles in their order, and returns the first failure: "invalid
\* pom_path: ...", else "invalid settings path: ...", else "invalid profile
\* '<name>': ..." for the first rejected profile; with an error it returns
\* no argument at all.
C22_BuildFirstFailure ==
    pc = "Returned" =>
        /\ BuildPomErr # "" => fout.err = "invalid pom_path: " \o BuildPomErr
        /\ (BuildPomErr = "" /\ BuildSettingsErr # "") =>
                fout.err = "invalid settings path: " \o BuildSettingsErr
        /\ (BuildPomErr = "" /\ BuildSettingsErr = ""
            /\ \E i \in 1..Len(fin.Profiles) : validateProfile(fin.Profiles[i]) # "") =>
                \E i \in 1..Len(fin.Profiles) : NamesFirstRejected(i)
        /\ (BuildPomErr = "" /\ BuildSettingsErr = ""
            /\ fin.Profiles = << <<"a"," ","b">>, <<"1","x">> >>) =>
                fout.err = "invalid profile 'a b': invalid profile name: must be alphanumeric with dashes or underscores"
        /\ fout.err # "" => fout.args = <<>>

\* the pom file, the settings file and a profile are all bad, and the error
\* is the one of the pom file
C22_Witness ==
    /\ pc = "Returned"
    /\ BuildPomErr # "" /\ BuildSettingsErr # ""
    /\ \E i \in 1..Len(fin.Profiles) : validateProfile(fin.Profiles[i]) # ""
    /\ fout.err = "invalid pom_path: " \o ErrTraversal
    /\ fout.args = <<>>

\* two profiles are bad and the error names the first
C22_WitnessProfile ==
    /\ pc = "Returned"
    /\ fin.Profiles = << <<"1","x">>, <<"a"," ","b">> >>
    /\ fout.err = "invalid profile '1x': invalid profile name: must be alphanumeric with dashes or underscores"

(***************************************************************************)
(* Several invocations of Execute and Validate on one plugin, interleaved  *)
(***************************************************************************)
MaxInvocations == 2

Invocations == 1..MaxInvocations

ConcValid ==
    [group_id |-> <<"c",".","e">>, artifact_id |-> <<"l","i","b">>,
     pom_path |-> <<>>, username |-> <<"u","s","r">>,
     password |-> <<"p","w","d">>,
     repository |-> sHttps \o <<":","/","/">> \o sHost \o <<"/","x">>,
     skip_tests |-> TRUE, settings |-> <<>>, profiles |-> << <<"r","e","l">> >>]

ConcBadArtifact == [ConcValid EXCEPT !.artifact_id = <<"a",".",".","b">>]

ConcBadPom ==
    [ConcValid EXCEPT !.pom_path = <<".",".","/","p">>, !.repository = <<>>,
                      !.group_id = <<"o",".","e">>]

ToPublic == [err |-> "", ips |-> <<PublicIP>>]
ToMetadata == [err |-> "", ips |-> <<PublicIP, MetadataIP>>]

\* what one invocation is called with: the method, the hook, the dryRun
\* flag, the config and what the resolver answers it
Call(k, h, d, r, a) == [kind |-> k, hook |-> h, dryRun |-> d, raw |-> r, dns |-> a]

Calls ==
    {Call("Execute", HookPostPublish, TRUE, ConcValid, ToPublic),
     Call("Execute", HookPostPublish, FALSE, ConcValid, ToPublic),
     Call("Execute", HookPostPublish, FALSE, ConcValid, ToMetadata),
     Call("Execute", HookPostPublish, FALSE, ConcBadArtifact, ToPublic),
     Call("Execute", HookPostPublish, TRUE, ConcBadPom, ToPublic),
     Call("Execute", "pre-publish", FALSE, ConcValid, ToPublic),
     Call("Validate", HookPostPublish, FALSE, ConcValid, ToPublic),
     Call("Validate", HookPostPublish, FALSE, ConcValid, ToMetadata),
     Call("Validate", HookPostPublish, FALSE, ConcBadArtifact, ToPublic)}

NotRun == [err |-> "not run", output |-> <<>>]

\* getExecutor: the executor of the plugin, RealCommandExecutor when none is set
getExecutor(executor) ==
    IF executor # "nil" THEN executor ELSE "RealCommandExecutor"

InitConc ==
    \E call \in [Invocations -> Calls] :
        /\ fin = [i \in Invocations |-> call[i].kind]
        /\ hook = [i \in Invocations |-> call[i].hook]
        /\ dryRun = [i \in Invocations |-> call[i].dryRun]
        /\ raw = [i \in Invocations |-> call[i].raw]
        /\ dns = [i \in Invocations |-> call[i].dns]
        /\ version \in [Invocations -> Versions]
        /\ pc = [i \in Invocations |-> "Idle"]
        /\ cfg = [i \in Invocations |-> NoConfig]
        /\ args = [i \in Invocations |-> <<>>]
        /\ checks = [i \in Invocations |-> <<>>]
        /\ lookups = [i \in Invocations |-> <<>>]
        /\ runCalls = [i \in Invocations |-> <<>>]
        /\ resp = [i \in Invocations |-> <<>>]
        /\ vresp = [i \in Invocations |-> <<>>]
        /\ \E ex \in {"nil", "mock"} :
            fout = [executor |-> ex, outcome |-> [i \in Invocations |-> NotRun]]

\* the response to a hook Execute does not handle
NotHandled(h) ==
    [success |-> TRUE, message |-> "Hook " \o h \o " not handled",
     error |-> "", outputs |-> NoOutputs]

\* ExecuteAt keeping the parsed config in the plugin, for all its invocations
ExecuteAt_SharedConfig(i) ==
    /\ fin[i] = "Execute"
    /\ pc[i] = "Idle"
    /\ cfg' = [j \in Invocations |-> parseConfig(raw[i])]
    /\ IF hook[i] = HookPostPublish
       THEN /\ pc' = [pc EXCEPT ![i] = "Validating"]
            /\ resp' = resp
       ELSE /\ pc' = [pc EXCEPT ![i] = "Unhandled"]
            /\ resp' = [resp EXCEPT ![i] = <<NotHandled(hook[i])>>]
    /\ UNCHANGED <<hook, dryRun, version, raw, dns, args, checks, lookups,
                   runCalls, vresp, fin, fout>>

\* Execute of invocation i: parseConfig and the switch on the hook
ExecuteAt(i) ==
    /\ fin[i] = "Execute"
    /\ pc[i] = "Idle"
    /\ cfg' = [cfg EXCEPT ![i] = parseConfig(raw[i])]
    /\ IF hook[i] = HookPostPublish
       THEN /\ pc' = [pc EXCEPT ![i] = "Validating"]
            /\ resp' = resp
       ELSE /\ pc' = [pc EXCEPT ![i] = "Unhandled"]
            /\ resp' = [resp EXCEPT ![i] = <<NotHandled(hook[i])>>]
    /\ UNCHANGED <<hook, dryRun, version, raw, dns, args, checks, lookups,
                   runCalls, vresp, fin, fout>>

\* deploy of invocation i: the coordinate and repository checks
DeployValidateAt(i) ==
    /\ pc[i] = "Validating"
    /\ LET v == deployValidate(cfg[i], dns[i]) IN
       /\ checks' = [checks EXCEPT ![i] = v.checks]
       /\ lookups' = [lookups EXCEPT ![i] = v.lookups]
       /\ IF v.err # ""
          THEN /\ pc' = [pc EXCEPT ![i] = "Rejected"]
               /\ resp' = [resp EXCEPT ![i] = <<Failure(v.err)>>]
          ELSE /\ pc' = [pc EXCEPT ![i] = "Building"]
               /\ resp' = resp
    /\ UNCHANGED <<hook, dryRun, version, raw, dns, cfg, args, runCalls,
                   vresp, fin, fout>>

\* deploy of invocation i: the call of buildMavenCommand
DeployBuildAt(i) ==
    /\ pc[i] = "Building"
    /\ LET b == buildMavenCommand(cfg[i]) IN
       /\ checks' = [checks EXCEPT ![i] = Append(checks[i], "build")]
       /\ IF b.err # ""
          THEN /\ pc' = [pc EXCEPT ![i] = "BuildFailed"]
               /\ args' = args
               /\ resp' = [resp EXCEPT ![i] = <<Failure(b.err)>>]
          ELSE /\ pc' = [pc EXCEPT ![i] = "Ready"]
               /\ args' = [args EXCEPT ![i] = b.args]
               /\ resp' = resp
    /\ UNCHANGED <<hook, dryRun, version, raw, dns, cfg, lookups, runCalls,
                   vresp, fin, fout>>

\* deploy of invocation i: the dry run returns the preview
DeployPreviewAt(i) ==
    /\ pc[i] = "Ready"
    /\ dryRun[i]
    /\ pc' = [pc EXCEPT ![i] = "Previewed"]
    /\ resp' = [resp EXCEPT ![i] = <<PreviewResponse(cfg[i], version[i], args[i])>>]
    /\ UNCHANGED <<hook, dryRun, version, raw, dns, cfg, args, checks,
                   lookups, runCalls, vresp, fin, fout>>

\* deploy of invocation i: getExecutor, and Run is called on what it returns
DeployRunAt(i) ==
    /\ pc[i] = "Ready"
    /\ ~dryRun[i]
    /\ pc' = [pc EXCEPT ![i] = "Running"]
    /\ runCalls' = [runCalls EXCEPT ![i] =
                      <<[name |-> sMvn, args |-> args[i],
                         executor |-> getExecutor(fout.executor)]>>]
    /\ UNCHANGED <<hook, dryRun, version, raw, dns, cfg, args, checks,
                   lookups, resp, vresp, fin, fout>>

\* deploy of invocation i: Run returns
DeployRunReturnAt(i) ==
    /\ pc[i] = "Running"
    /\ \E outcome \in ExecOutcomes :
        /\ pc' = [pc EXCEPT ![i] =
                    IF outcome.err # "" THEN "ExecutionFailed" ELSE "Executed"]
        /\ resp' = [resp EXCEPT ![i] = <<RunResponse(cfg[i], version[i], outcome)>>]
        /\ fout' = [fout EXCEPT !.outcome[i] = outcome]
    /\ UNCHANGED <<hook, dryRun, version, raw, dns, cfg, args, checks,
                   lookups, runCalls, vresp, fin>>

\* Validate of invocation i
ValidateAt(i) ==
    /\ fin[i] = "Validate"
    /\ pc[i] = "Idle"
    /\ LET v == ValidateConfig(raw[i], dns[i]) IN
       /\ vresp' = [vresp EXCEPT ![i] = <<v.resp>>]
       /\ lookups' = [lookups EXCEPT ![i] = v.lookups]
    /\ pc' = [pc EXCEPT ![i] = "Validated"]
    /\ UNCHANGED <<hook, dryRun, version, raw, dns, cfg, args, checks,
                   runCalls, resp, fin, fout>>

NextConc ==
    \E i \in Invocations :
        \/ ExecuteAt(i)
        \/ DeployValidateAt(i)
        \/ DeployBuildAt(i)
        \/ DeployPreviewAt(i)
        \/ DeployRunAt(i)
        \/ DeployRunReturnAt(i)
        \/ ValidateAt(i)

SpecConc == InitConc /\ [][NextConc]_vars

\* the response of deploy once buildMavenCommand returned b
ResponseBuilt(c, dry, ver, b, outcome) ==
    IF b.err # "" THEN Failure(b.err)
    ELSE IF dry THEN PreviewResponse(c, ver, b.args)
    ELSE RunResponse(c, ver, outcome)

\* the response of deploy once the first checks returned v
ResponseChecked(c, dry, ver, v, outcome) ==
    IF v.err # "" THEN Failure(v.err)
    ELSE ResponseBuilt(c, dry, ver, buildMavenCommand(c), outcome)

\* the response of an Execute that runs alone
ResponseOf(r, h, dry, ver, answer, outcome) ==
    IF h # HookPostPublish THEN NotHandled(h)
    ELSE ResponseChecked(parseConfig(r), dry, ver,
                         deployValidate(parseConfig(r), answer), outcome)

\* a step leaves alone the plugin and every invocation it is not a step of
OthersUntouched ==
    /\ fout'.executor = fout.executor
    /\ \A j \in Invocations :
        pc'[j] = pc[j] =>
            /\ cfg'[j] = cfg[j] /\ args'[j] = args[j]
            /\ checks'[j] = checks[j] /\ lookups'[j] = lookups[j]
            /\ runCalls'[j] = runCalls[j] /\ resp'[j] = resp[j]
            /\ vresp'[j] = vresp[j] /\ fout'.outcome[j] = fout.outcome[j]
    /\ raw' = raw /\ dns' = dns /\ hook' = hook /\ dryRun' = dryRun
    /\ version' = version

AloneAgrees ==
    \A i \in Invocations :
        /\ resp[i] # <<>> =>
            resp[i] = <<ResponseOf(raw[i], hook[i], dryRun[i], version[i],
                                   dns[i], fout.outcome[i])>>
        /\ vresp[i] # <<>> => vresp[i] = <<ValidateConfig(raw[i], dns[i]).resp>>
        /\ pc[i] \in {"Building", "Ready", "Running"} => cfg[i] = parseConfig(raw[i])

\* C24: under every interleaving of Execute and Validate invocations on one
\* plugin, each invocation returns the response it returns when it runs
\* alone with the same config, hook, dryRun flag, version, DNS answer and
\* outcome of executor.Run, and no step of one invocation changes what the
\* plugin or another invocation holds.
C24_InvocationsIndependent == []AloneAgrees /\ [][OthersUntouched]_vars

\* two invocations with different configs have both returned
C24_Witness ==
    /\ pc[1] = "Executed" /\ pc[2] = "Rejected"
    /\ raw[1] # raw[2]
    /\ resp[1] # <<>> /\ resp[2] # <<>>

\* one invocation is in executor.Run while another has not yet built
C24_WitnessOverlap == pc[1] = "Running" /\ pc[2] = "Building"

\* the Config parseConfig makes of the map given to Execute
ParsedConfig ==
    [GroupID    |-> raw.group_id,
     ArtifactID |-> raw.artifact_id,
     PomPath    |-> IF raw.pom_path = <<>> THEN <<"p","o","m",".","x","m","l">>
                    ELSE raw.pom_path,
     Username   |-> raw.username,
     Password   |-> raw.password,
     Repository |-> raw.repository,
     SkipTests  |-> raw.skip_tests,
     Settings   |-> raw.settings,
     Profiles   |-> raw.profiles]

\* the outputs name the parsed values
OutputsAreParsed ==
    /\ pc \in {"Previewed", "Executed"} =>
        /\ resp[1].outputs.group_id = ParsedConfig.GroupID
        /\ resp[1].outputs.artifact_id = ParsedConfig.ArtifactID
    /\ pc = "Previewed" =>
        /\ resp[1].outputs.pom_path = ParsedConfig.PomPath
        /\ resp[1].outputs.skip_tests = ParsedConfig.SkipTests
        /\ resp[1].outputs.profiles = ParsedConfig.Profiles

\* C25: from parseConfig to the end of the invocation deploy and
\* buildMavenCommand leave every field of the Config as it was parsed, the
\* profiles included, so the group_id, artifact_id, pom_path, skip_tests and
\* profiles of the outputs are the parsed values, pom_path being "pom.xml"
\* when none is configured.
C25_ConfigUnchanged ==
    /\ [](pc \notin {"Idle", "Validated"} => cfg = ParsedConfig)
    /\ [][pc # "Idle" => cfg' = cfg]_vars
    /\ []OutputsAreParsed

\* a preview of a config without pom_path and with two profiles
C25_Witness ==
    /\ pc = "Previewed"
    /\ raw.pom_path = <<>>
    /\ Len(cfg.Profiles) = 2
    /\ resp[1].outputs.pom_path = <<"p","o","m",".","x","m","l">>
    /\ resp[1].outputs.profiles = raw.profiles

\* a post-publish Execute with dryRun of the same config, under the same
\* DNS answer, succeeds
DryRunSucceeds ==
    ResponseOf(raw, HookPostPublish, TRUE, version, dns, NotRun).success

\* C26: for every config and DNS answer, Validate returns valid exactly
\* when a post-publish Execute with dryRun of the same config succeeds.
C26_ValidateAgreesWithDryRun ==
    /\ pc = "Validated" => (vresp[1].valid <=> DryRunSucceeds)
    /\ (hook = HookPostPublish /\ dryRun /\ Returned) =>
            (resp[1].success <=> ValidateConfig(raw, dns).resp.valid)

\* Validate found a config with a repository valid
C26_Witness ==
    /\ pc = "Validated"
    /\ vresp[1].valid
    /\ raw.repository # <<>> /\ raw.settings # <<>> /\ raw.profiles # <<>>
    /\ DryRunSucceeds

\* a dry run was rejected for the repository alone, as Validate rejects it
C26_WitnessRejected ==
    /\ pc = "Rejected" /\ dryRun
    /\ GroupErr = "" /\ ArtifactErr = ""
    /\ ~resp[1].success
    /\ ~ValidateConfig(raw, dns).resp.valid

\* the flags buildMavenCommand writes
FixedFlags ==
    {<<"-","f">>, <<"-","D","s","k","i","p","T","e","s","t","s">>,
     <<"-","s">>, <<"-","P">>}

\* the token after the first flag f of the arguments a, <<>> without the flag
TokenAfter(a, f) ==
    IF \E i \in 1..(Len(a) - 1) : a[i] = f
    THEN a[1 + CHOOSE i \in 1..(Len(a) - 1) :
                    a[i] = f /\ \A j \in 1..(i - 1) : a[j] # f]
    ELSE <<>>

\* each value given by the operator is the one token after its own flag
ValuesFollowFlags ==
    /\ TokenAfter(fout.args, <<"-","f">>) =
            (IF fin.PomPath = <<>> THEN sPomXml ELSE fin.PomPath)
    /\ TokenAfter(fout.args, <<"-","s">>) = fin.Settings
    /\ TokenAfter(fout.args, <<"-","P">>) = Join(fin.Profiles, <<",">>)

\* C27: in every argument sequence buildMavenCommand returns, a token that
\* begins with "-" is one of the flags "-f", "-DskipTests", "-s", "-P", and
\* each value given by the operator (pomPath, settings path, joined
\* profiles) is one token right after its own flag.
C27_NoValueActsAsOption ==
    (pc = "Returned" /\ fout.err = "") =>
        /\ \A i \in 1..Len(fout.args) :
                HasPrefix(fout.args[i], <<"-">>) => fout.args[i] \in FixedFlags
        /\ ValuesFollowFlags

\* a segment of the path, between separators, is ".."
HasParentSegment(path) ==
    \E i \in 1..Len(Split(path, "/")) : Split(path, "/")[i] = <<".", ".">>

\* C28: validatePath returns "path traversal detected" exactly when the
\* cleaned form of the path has a segment "..": every path that is not
\* empty and whose cleaned form is relative and has no such segment is
\* accepted.
C28_TraversalIffParentSegment ==
    (pc = "Returned" /\ fin # <<>>) =>
        /\ (fout = ErrTraversal) <=>
                (~IsAbs(Clean(fin)) /\ HasParentSegment(Clean(fin)))
        /\ (~IsAbs(Clean(fin)) /\ ~HasParentSegment(Clean(fin))) => fout = ""

\* the config without its credentials
NoCredentials(r) == [r EXCEPT !.username = <<>>, !.password = <<>>]

\* r differs from the config of the invocation at most in username,
\* password, repository, groupId and artifactId, and passes every check
SameBuildFields(r) ==
    /\ r.pom_path = raw.pom_path /\ r.skip_tests = raw.skip_tests
    /\ r.settings = raw.settings /\ r.profiles = raw.profiles
    /\ deployValidate(parseConfig(r), dns).err = ""
    /\ buildMavenCommand(parseConfig(r)).err = ""

\* the credentials are in none of the tokens and in none of the outputs
CredentialsNotShown ==
    (raw.username # <<>> /\ raw.password # <<>>) =>
        /\ \A i \in 1..Len(args) :
                ~Contains(args[i], raw.username) /\ ~Contains(args[i], raw.password)
        /\ pc = "Previewed" =>
            /\ ~Contains(resp[1].outputs.command, raw.username)
            /\ ~Contains(resp[1].outputs.command, raw.password)
            /\ DOMAIN resp[1].outputs = OutputKeysPreview

\* C29: the arguments and the command of the preview depend only on pomPath,
\* skipTests, the settings path and the profiles: two valid configs that
\* differ only in username, password, repository, groupId or artifactId
\* give the same arguments; and every response, with its message, outputs
\* and error, and every argument is what it is for the same config without
\* username and password, so these two values appear nowhere.
C29_CredentialsAndCoordinatesNotInCommand ==
    /\ pc = "Ready" =>
        \A r \in SmallConfigs :
            SameBuildFields(r) => buildMavenCommand(parseConfig(r)).args = args
    /\ pc \in {"Ready", "Previewed", "Running", "Executed", "ExecutionFailed"} =>
        /\ args = buildMavenCommand(parseConfig(NoCredentials(raw))).args
        /\ \A i \in 1..Len(runCalls) : runCalls[i].args = args
    /\ Returned =>
        \E outcome \in ExecOutcomes :
            resp[1] = ResponseOf(NoCredentials(raw), hook, dryRun, version,
                                 dns, outcome)
    /\ pc = "Validated" => vresp[1] = ValidateConfig(NoCredentials(raw), dns).resp
    /\ CredentialsNotShown

\* a preview of a config with credentials and a repository
C29_Witness ==
    /\ pc = "Previewed"
    /\ raw.username = <<"u","s","r">> /\ raw.password = <<"p","w","d">>
    /\ raw.repository # <<>>
    /\ resp[1].success
    /\ resp[1].outputs.command = <<"m","v","n"," ">> \o Join(args, <<" ">>)

\* arguments were built, and another valid config with another groupId,
\* another repository and no credentials has the same build fields
C29_WitnessPair ==
    /\ pc = "Ready"
    /\ raw.username # <<>>
    /\ \E r \in SmallConfigs :
        /\ SameBuildFields(r)
        /\ r.group_id # raw.group_id /\ r.artifact_id # raw.artifact_id
        /\ r.repository # raw.repository /\ r.username = <<>>

\* C30: for every list of profiles buildMavenCommand accepts, the token
\* after "-P", split at its commas, is the list of profiles again: the
\* same names, in the same order, as many; no accepted name has a comma or
\* is empty.
C30_ProfilesRoundTrip ==
    (pc = "Returned" /\ fout.err = "" /\ fin.Profiles # <<>>) =>
        /\ \E i \in 1..(Len(fout.args) - 1) : fout.args[i] = <<"-","P">>
        /\ Split(TokenAfter(fout.args, <<"-","P">>), ",") = fin.Profiles
        /\ Len(Split(TokenAfter(fout.args, <<"-","P">>), ",")) = Len(fin.Profiles)
        /\ \A i \in 1..Len(fin.Profiles) :
                fin.Profiles[i] # <<>> /\ IndexOf(fin.Profiles[i], ",") = 0

\* two profiles were joined into "rel,rel" and come back as two
C30_Witness ==
    /\ pc = "Returned"
    /\ fout.err = ""
    /\ Len(fin.Profiles) = 2
    /\ TokenAfter(fout.args, <<"-","P">>) = <<"r","e","l",",","r","e","l">>
    /\ Split(TokenAfter(fout.args, <<"-","P">>), ",") = fin.Profiles

====
